---- MODULE Spec2Model ----
(***************************************************************************)
(* Execution engine of crossbench: the Runner, its RunThreadGroups, the    *)
(* Run lifecycle (setup / story / tear_down) and the per-Run probe scopes. *)
(* Every worker thread (RunThreadGroup) is a process of the model; the      *)
(* steps of Run.run are the actions RunEnter, BrowserSetup, RunStory and   *)
(* TearDown.  Failures of hooks, of the browser and of the story are       *)
(* environment choices, at most MaxFaults of them per behaviour.           *)
(***************************************************************************)
EXTENDS Integers, Sequences, FiniteSets, TLC

\* ---------------------------------------------------------------- bounds
MaxBrowsers == 2
MaxStories == 2
MaxRepetitions == 2
MaxRuns == 2
MaxUserProbes == 1
MaxFaults == 1
\* Bounds of the specification that only builds the Runs and the thread groups.
PlanMaxBrowsers == 3
PlanMaxStories == 2
PlanMaxRepetitions == 2
PlanMaxRuns == 12

\* ------------------------------------------------------------- constants
STATE_INITIAL == 0
STATE_PREPARE == 1
STATE_RUN == 2
STATE_DONE == 3

ThreadModes == {"none", "platform", "browser", "run"}

\* Runner._attach_default_probes: results summary, durations, runner log.
DefaultProbes == <<"results", "cb.runner.durations", "cb.runner.log">>

UserProbeNames == <<"probe1", "probe2", "probe3">>

\* Probe.PRODUCES_DATA: true by default, false for the results summary.
PRODUCES_DATA(p) == p # "results"

VARIABLES
  cfg,          \* arguments of Runner(...) and Runner.run(is_dry_run)
  probes,       \* Runner._probes, in attach order
  attached,     \* pairs <<probe, browser>> for which browser.attach_probe ran
  runs,         \* Runner._runs: sequence of Run records
  groups,       \* the RunThreadGroups built by ThreadMode.group
  rpc,          \* position of the main thread inside Runner.run
  isRunning,    \* Browser._is_running, per browser
  handlers,     \* handlers of the root logger: the Runs whose log scope added one
  cwd,          \* process working directory: 0 = the initial one, i = out_dir of run i
  exceptions,   \* Runner._exceptions: the captured entries
  faults,       \* number of failures injected so far
  lastCall,     \* outcome of the last direct call of Run.run / Run.tear_down by a client
  sleep,        \* helper.SystemSleepPreventer: "idle", "held" or "released"
  mergeLog,     \* the merge hooks called so far: [level, group, probe, out]
  flags,        \* a Flags object a client works on: [cls, data]
  env,          \* a HostEnvironment a client works on: [config, mode]
  binaries,     \* the browsers for which browser.setup_binary was called, in order
  storyFilter   \* a PressBenchmarkStoryFilter a client builds: [selected, processed]

vars == <<cfg, probes, attached, runs, groups, rpc, isRunning, handlers, cwd,
          exceptions, faults, lastCall, sleep, mergeLog, flags, env, binaries, storyFilter>>

\* ---------------------------------------------------------------- helpers
Reverse(s) == [i \in 1..Len(s) |-> s[Len(s) + 1 - i]]

Indices(s) == [i \in 1..Len(s) |-> i]

Min(S) == CHOOSE x \in S : \A y \in S : x <= y

\* The sub-sequence of the index sequence `order` that lies in F.
Pick(order, F) == SelectSeq(order, LAMBDA i : i \in F)

\* One log entry per element of the index sequence `order`.
Events(op, ps, order) == [k \in 1..Len(order) |-> [op |-> op, probe |-> ps[order[k]]]]

BrowserEvent(op) == [op |-> op, probe |-> "browser"]

Browsers == 1..cfg.browsers

\* Browser.platform: the browsers from cfg.remote_from on live on a remote platform.
platform(b) == IF b >= cfg.remote_from THEN "remote" ELSE "local"

is_remote(b) == platform(b) = "remote"

\* Probe.is_attached (RunResultsSummaryProbe overrides it with True).
is_attached(p) == p = "results" \/ \E b \in Browsers : <<p, b>> \in attached

\* Probe.RESULT_LOCATION: user probes write on the browser side.
RESULT_LOCATION(p) == IF p \in {DefaultProbes[i] : i \in 1..Len(DefaultProbes)}
                      THEN "local" ELSE "browser"

\* ------------------------------------------------------------------- Run
NewRun(b, s, rep, idx) ==
  [browser |-> b, story |-> s, repetition |-> rep, index |-> idx,
   state |-> STATE_INITIAL,
   log |-> <<>>,            \* hooks and browser operations invoked for this Run, in order
   errors |-> <<>>,         \* Run._exceptions
   results |-> <<>>,        \* Run._probe_results as a sequence of <<probe, kind>>
   summary |-> -1,          \* length of the errors array in results.json, -1: not written
   tmp_dir |-> "none",      \* Run._browser_tmp_dir
   out_dir |-> FALSE,       \* Run.run has created Run._out_dir
   saved_cwd |-> 0,         \* the directory ChangeCWD restores
   raised |-> {},           \* phases in which something raised inside this Run
   quit_skipped |-> FALSE,  \* tear_down found the browser no longer running
   exited |-> FALSE,        \* Run.run has returned or thrown
   escaped |-> FALSE]       \* Run.run ended by throwing

\* Runner.get_runs with the loop over the browsers outermost.
get_runs_browsers_outermost ==
  LET nr == cfg.repetitions
      ns == cfg.stories
  IN [i \in 1..(nr * ns * cfg.browsers) |->
        NewRun(((i - 1) \div (nr * ns)) + 1, (((i - 1) \div nr) % ns) + 1,
               (i - 1) % nr, i - 1)]

\* Run.get_out_dir: root_dir / browser.unique_name / story.name / repetition, as
\* the path below root_dir.  Runner._validate_browsers asserts that the unique
\* names differ; the stories of a benchmark are told apart by their names.
get_out_dir(r) == <<r.browser, r.story, r.repetition>>

\* Runner.get_runs: repetitions outermost, then stories, then browsers.
get_runs ==
  LET nb == cfg.browsers
      ns == cfg.stories
  IN [i \in 1..(cfg.repetitions * ns * nb) |->
        NewRun(((i - 1) % nb) + 1, (((i - 1) \div nb) % ns) + 1,
               (i - 1) \div (nb * ns), i - 1)]

\* Run._advance_state without its assertion.
advance_state_unchecked(state, expected, next_state) == [ok |-> TRUE, state |-> next_state]

\* Run._advance_state: the assertion fails and leaves the state alone.
advance_state(state, expected, next_state) ==
  IF state = expected THEN [ok |-> TRUE, state |-> next_state]
                      ELSE [ok |-> FALSE, state |-> state]

\* ProbeResultDict.__setitem__ on the sequence of <<probe, kind>> pairs.
SetResult(res, p, kind) ==
  IF \E i \in 1..Len(res) : res[i][1] = p
  THEN [i \in 1..Len(res) |-> IF res[i][1] = p THEN <<p, kind>> ELSE res[i]]
  ELSE Append(res, <<p, kind>>)

\* ------------------------------------------------------------- Annotator
\* exception.Annotator: an exception that leaves a block entered with info(...)
\* keeps propagating; one that leaves a block entered with capture(...) is
\* appended to the annotator and swallowed, unless the annotator throws.
Propagates(scope, throw) == scope = "info" \/ throw

Recorded(scope) == scope = "capture"

\* Run.setup: the scope setup hooks run under Run.exception_info.
probe_setup_scope == "info"

\* ProbeScope.__enter__ / __exit__: start and stop run under Run.exception_handler.
probe_start_stop_scope == "capture"

\* Run.tear_down: browser.quit runs under Annotator.capture("Quit browser").
quit_scope == "capture"

\* Run._tear_down_probe_scopes with each tear_down under Annotator.info.
tear_down_scope_info == "info"

\* Run._tear_down_probe_scopes: each tear_down runs under Annotator.capture.
tear_down_scope == "capture"

\* ------------------------------------------------------------ ThreadMode
\* helper.group_by: one group per key, the groups in order of first occurrence.
\*   keys[i]: the key of the i-th item.
group_by(keys) ==
  LET n == Len(keys)
      firsts == {i \in 1..n : \A j \in 1..(i - 1) : keys[j] # keys[i]}
      nth(g) == CHOOSE i \in firsts : Cardinality({j \in firsts : j < i}) = g - 1
  IN [g \in 1..Cardinality(firsts) |->
        SelectSeq([i \in 1..n |-> i], LAMBDA i : keys[i] = keys[nth(g)])]

\* ThreadMode.group that groups by browser in every mode.
ThreadMode_group_by_browser(mode, rs) == group_by([i \in 1..Len(rs) |-> rs[i].browser])

\* ThreadMode.group: the run positions of each RunThreadGroup.
ThreadMode_group(mode, rs) ==
  CASE mode = "none" -> <<[i \in 1..Len(rs) |-> i]>>
    [] mode = "run" -> [i \in 1..Len(rs) |-> <<i>>]
    [] mode = "platform" -> group_by([i \in 1..Len(rs) |-> platform(rs[i].browser)])
    [] mode = "browser" -> group_by([i \in 1..Len(rs) |-> rs[i].browser])

\* RunThreadGroup.run iterating over its Runs from the last one.
NewGroup_from_last(positions) ==
  [runs |-> positions, idx |-> Len(positions), pc |-> "new", joined |-> FALSE]

\* RunThreadGroup.__init__
NewGroup(positions) == [runs |-> positions, idx |-> 1, pc |-> "new", joined |-> FALSE]

\* ------------------------------------------------------------------ Init
\* No Flags object and no HostEnvironment is under test.
NoFlags == [cls |-> "none", data |-> <<>>]

NoEnv == [config |-> <<>>, mode |-> "none"]

NoStoryFilter == [selected |-> <<>>, processed |-> 0]

\* Runner.__init__ with up to mb browsers, ms stories, mr repetitions and
\* mruns Runs.
InitWith(mb, ms, mr, mruns) ==
  /\ \E nb \in 1..mb, ns \in 1..ms, nr \in 1..mr,
        mode \in ThreadModes, th \in BOOLEAN, dry \in BOOLEAN,
        rf \in 1..(mb + 1) :
       /\ nb * ns * nr <= mruns
       /\ rf <= nb + 1
       /\ cfg = [browsers |-> nb, stories |-> ns, repetitions |-> nr,
                 thread_mode |-> mode, throw |-> th, is_dry_run |-> dry,
                 remote_from |-> rf]
       /\ probes = DefaultProbes \o SubSeq(UserProbeNames, 1, MaxUserProbes)
       /\ attached = {<<DefaultProbes[i], b>> : i \in 1..Len(DefaultProbes), b \in 1..nb}
                     \cup {<<UserProbeNames[i], b>> : i \in 1..MaxUserProbes, b \in 1..nb}
       /\ isRunning = [b \in 1..nb |-> FALSE]
  /\ runs = <<>>
  /\ groups = <<>>
  /\ rpc = "setup"
  /\ handlers = {}
  /\ cwd = 0
  /\ exceptions = <<>>
  /\ faults = 0
  /\ lastCall = "none"
  /\ sleep = "idle"
  /\ mergeLog = <<>>
  /\ flags = NoFlags
  /\ env = NoEnv
  /\ binaries = <<>>
  /\ storyFilter = NoStoryFilter

Init == InitWith(MaxBrowsers, MaxStories, MaxRepetitions, MaxRuns)

\* ----------------------------------------------------------- main thread
\* Runner._setup without its closing assert_success.
setup_assert_skipped(errors) == TRUE

\* Runner._setup: the closing self._exceptions.assert_success() raises when an
\* error was captured.
setup_assert_success(errors) == errors = <<>>

\* Runner._setup: HostEnvironment.setup runs under Annotator.capture.
env_setup_scope == "capture"

\* Runner._setup with each browser.setup_binary under Annotator.info.
setup_binary_scope_info == "info"

\* Runner._setup: each browser.setup_binary runs under Annotator.capture.
setup_binary_scope == "capture"

\* Runner._setup: self._exceptions.assert_success() after the setup_binary loop.
setup_binary_assert_success(errors) == errors = <<>>

\* Runner.run up to the end of Runner._setup: the sleep inhibitor is acquired,
\* browser.setup_binary is called for the browsers ("Preparing browser"), the
\* Runs are built ("Preparing Runs") and the environment is validated
\* ("Preparing Environment"); an exception leaves the with block of the inhibitor.
\*   B: the browsers whose setup_binary raises;
\*   ok: HostEnvironment.setup accepts the host.
RunnerSetup ==
  /\ rpc = "setup"
  /\ \E B \in SUBSET Browsers, ok \in BOOLEAN :
       LET thr == Propagates(setup_binary_scope, cfg.throw)
           all == [b \in 1..cfg.browsers |-> b]
           called == IF thr /\ B # {} THEN SubSeq(all, 1, Min(B)) ELSE all
           failed == Pick(called, B)
           binErrs == IF Recorded(setup_binary_scope)
                      THEN [k \in 1..Len(failed) |->
                              [run |-> 0, browser |-> failed[k],
                               error |-> [op |-> "Preparing browser", probe |-> "browser"]]]
                      ELSE <<>>
           errs1 == exceptions \o binErrs
           errs == IF ok THEN errs1
                   ELSE Append(errs1,
                               [run |-> 0,
                                error |-> [op |-> "Preparing Environment", probe |-> "env"]])
           raises == ~ok /\ Propagates(env_setup_scope, cfg.throw)
           nf == Cardinality(B) + (IF ok THEN 0 ELSE 1)
       IN /\ faults + nf <= MaxFaults
          /\ B # {} => ok
          /\ faults' = faults + nf
          /\ binaries' = called
          /\ IF (thr /\ B # {}) \/ ~setup_binary_assert_success(errs1)
             THEN /\ exceptions' = errs1
                  /\ rpc' = "raised" /\ sleep' = "released"
                  /\ UNCHANGED runs
             ELSE /\ runs' = get_runs
                  /\ exceptions' = errs
                  /\ IF raises \/ ~setup_assert_success(errs)
                     THEN rpc' = "raised" /\ sleep' = "released"
                     ELSE rpc' = "groups" /\ sleep' = "held"
  /\ UNCHANGED <<cfg, probes, attached, groups, isRunning, handlers, cwd,
                 lastCall, mergeLog>>
  /\ UNCHANGED <<flags, env, storyFilter>>

\* Runner._get_thread_groups, first line of Runner._run.
GetThreadGroups ==
  /\ rpc = "groups"
  /\ groups' = LET gs == ThreadMode_group(cfg.thread_mode, runs)
               IN [g \in 1..Len(gs) |-> NewGroup(gs[g])]
  /\ rpc' = "start"
  /\ UNCHANGED <<cfg, probes, attached, runs, isRunning, handlers, cwd,
                 exceptions, faults, lastCall>>
  /\ UNCHANGED <<sleep, mergeLog, flags, env, binaries, storyFilter>>

\* Runner._run, first loop: thread_group.start() for the next group.
StartGroup ==
  /\ rpc = "start"
  /\ \E g \in 1..Len(groups) :
       /\ groups[g].pc = "new"
       /\ \A h \in 1..(g - 1) : groups[h].pc # "new"
       /\ groups' = [groups EXCEPT ![g].pc = "enter"]
       /\ rpc' = IF g = Len(groups) THEN "join" ELSE "start"
  /\ UNCHANGED <<cfg, probes, attached, runs, isRunning, handlers, cwd,
                 exceptions, faults, lastCall>>
  /\ UNCHANGED <<sleep, mergeLog, flags, env, binaries, storyFilter>>

Ended(g) == groups[g].pc \in {"finished", "dead"}

\* Runner._run, second loop: thread_group.join() returns once the thread has
\* ended; after the last join Runner._run returns and Runner.run leaves the with
\* block of the sleep inhibitor.
JoinGroup ==
  /\ rpc = "join"
  /\ \E g \in 1..Len(groups) :
       /\ ~groups[g].joined
       /\ \A h \in 1..(g - 1) : groups[h].joined
       /\ Ended(g)
       /\ groups' = [groups EXCEPT ![g].joined = TRUE]
       /\ rpc' = IF g = Len(groups) THEN "joined" ELSE "join"
       /\ sleep' = IF g = Len(groups) THEN "released" ELSE sleep
  /\ UNCHANGED <<cfg, probes, attached, runs, isRunning, handlers, cwd,
                 exceptions, faults, lastCall, mergeLog>>
  /\ UNCHANGED <<flags, env, binaries, storyFilter>>

\* -------------------------------------------------------- worker threads
\* The Run a started RunThreadGroup is working on.
Current(g) == groups[g].runs[groups[g].idx]

Budget(n) == faults + n <= MaxFaults

\* helper.ChangeCWD.__exit__: the process goes back to the directory that was
\* the working directory when the block was entered.
ChangeCWD_exit(saved) == saved

\* RunThreadGroup.run after run.run(...) came back: ChangeCWD has restored the
\* working directory; an exception ends the thread, otherwise the results are
\* logged or the Run's errors are added to the Runner's annotator.
AfterRun(g, i, r) ==
  /\ runs' = [runs EXCEPT ![i] = [r EXCEPT !.exited = TRUE]]
  /\ cwd' = ChangeCWD_exit(r.saved_cwd)
  /\ IF r.escaped
     THEN /\ groups' = [groups EXCEPT ![g].pc = "dead"]
          /\ UNCHANGED exceptions
     ELSE /\ groups' = [groups EXCEPT
                          ![g].pc = IF groups[g].idx = Len(groups[g].runs)
                                    THEN "finished" ELSE "enter",
                          ![g].idx = IF groups[g].idx = Len(groups[g].runs)
                                     THEN @ ELSE @ + 1]
          /\ exceptions' = IF r.errors = <<>>
                           THEN exceptions
                           ELSE exceptions \o [k \in 1..Len(r.errors) |->
                                                 [run |-> i, error |-> r.errors[k]]]

\* Run.setup, the probe creation loop: the first probe that is not attached.
FirstUnattached == {j \in 1..Len(probes) :
                      /\ ~is_attached(probes[j])
                      /\ \A h \in 1..(j - 1) : is_attached(probes[h])}

\* Run.setup without the seeding of the ProbeResultDict.
Seeded_nothing(m) == <<>>

\* Run.setup: the ProbeResultDict is seeded for the first m probes.
Seeded(m) ==
  LET js == SelectSeq(Indices(probes), LAMBDA j : j <= m /\ PRODUCES_DATA(probes[j]))
  IN [k \in 1..Len(js) |-> <<probes[js[k]], "empty">>]

\* Run.setup without the early return of a dry run.
setup_ignores_dry_run(is_dry_run) == FALSE

\* Run.setup: a dry run returns no probe scopes right after the state change.
setup_returns_early(is_dry_run) == is_dry_run

LogProbeIndex == CHOOSE j \in 1..Len(probes) : probes[j] = "cb.runner.log"

\* Run.run up to the end of the probe setup loop of Run.setup: out_dir, ChangeCWD,
\* _advance_state(INITIAL, PREPARE), the probe creation loop and the setup hooks.
\*   k: the scope whose setup raises (0: none).  Under a propagating scope the
\*   exception ends Run.run, and with it the worker thread.
RunEnter(g) ==
  /\ g \in 1..Len(groups)
  /\ groups[g].pc = "enter"
  /\ LET i == Current(g)
         r == runs[i]
         adv == advance_state(r.state, STATE_INITIAL, STATE_PREPARE)
         r0 == [r EXCEPT !.out_dir = TRUE, !.saved_cwd = cwd, !.state = adv.state]
         n == Len(probes)
     IN IF ~adv.ok
        THEN /\ AfterRun(g, i, [r0 EXCEPT !.escaped = TRUE])
             /\ UNCHANGED <<handlers, faults>>
        ELSE IF setup_returns_early(cfg.is_dry_run)
        THEN /\ runs' = [runs EXCEPT ![i] = r0]
             /\ cwd' = i
             /\ groups' = [groups EXCEPT ![g].pc = "prepared"]
             /\ UNCHANGED <<handlers, faults, exceptions>>
        ELSE IF FirstUnattached # {}
        THEN /\ AfterRun(g, i, [r0 EXCEPT !.results = Seeded(Min(FirstUnattached)),
                                          !.raised = @ \cup {"creation"},
                                          !.escaped = TRUE])
             /\ UNCHANGED <<handlers, faults>>
        ELSE LET tmp == IF is_remote(r.browser)
                           /\ \E j \in 1..n : RESULT_LOCATION(probes[j]) = "browser"
                        THEN "created" ELSE "none"
                 r1 == [r0 EXCEPT !.results = Seeded(n), !.tmp_dir = tmp]
             IN \E k \in 0..n :
                  IF k = 0
                  THEN /\ runs' = [runs EXCEPT ![i] =
                                     [r1 EXCEPT !.log = @ \o Events("setup", probes, Indices(probes))]]
                       /\ handlers' = handlers \cup {i}
                       /\ cwd' = i
                       /\ groups' = [groups EXCEPT ![g].pc = "bsetup"]
                       /\ UNCHANGED <<faults, exceptions>>
                  ELSE IF Propagates(probe_setup_scope, cfg.throw)
                  THEN /\ Budget(1)
                       /\ faults' = faults + 1
                       /\ handlers' = IF LogProbeIndex < k THEN handlers \cup {i} ELSE handlers
                       /\ AfterRun(g, i,
                            [r1 EXCEPT !.log = @ \o Events("setup", probes, SubSeq(Indices(probes), 1, k)),
                                       !.errors = IF Recorded(probe_setup_scope)
                                                  THEN Append(@, [op |-> "setup", probe |-> probes[k]])
                                                  ELSE @,
                                       !.raised = @ \cup {"setup"},
                                       !.escaped = TRUE])
                  ELSE /\ Budget(1)
                       /\ faults' = faults + 1
                       /\ handlers' = IF LogProbeIndex # k THEN handlers \cup {i} ELSE handlers
                       /\ runs' = [runs EXCEPT ![i] =
                                     [r1 EXCEPT !.log = @ \o Events("setup", probes, Indices(probes)),
                                                !.errors = Append(@, [op |-> "setup", probe |-> probes[k]]),
                                                !.raised = @ \cup {"setup"}]]
                       /\ cwd' = i
                       /\ groups' = [groups EXCEPT ![g].pc = "bsetup"]
                       /\ UNCHANGED exceptions
  /\ UNCHANGED <<cfg, probes, attached, rpc, isRunning, lastCall>>
  /\ UNCHANGED <<sleep, mergeLog, flags, env, binaries, storyFilter>>

\* Run.setup without the except clause around browser.setup.
browser_setup_cleanup_missing == <<>>

\* Run.setup, "browser-setup": what runs after browser.setup raised.
browser_setup_cleanup == <<BrowserEvent("browser.force_quit")>>

\* Run.setup whose except clause force-quits the browser twice.
browser_setup_raised_quits_twice(log) ==
  Append(log, BrowserEvent("browser.setup"))
    \o browser_setup_cleanup \o browser_setup_cleanup

\* Run.setup, "browser-setup": browser.setup raised, the except clause runs
\* and re-raises.
browser_setup_raised(log) ==
  Append(log, BrowserEvent("browser.setup")) \o browser_setup_cleanup

\* Browser.start: assert not self._is_running.
start_allowed(running) == ~running

\* Run.setup: browser.setup(run) starts the browser (Browser.start asserts that
\* it is not running yet); on any exception the browser is force-quit and the
\* exception ends Run.run.
BrowserSetup(g) ==
  /\ g \in 1..Len(groups)
  /\ groups[g].pc = "bsetup"
  /\ LET i == Current(g)
         r == runs[i]
         b == r.browser
     IN \E fail \in BOOLEAN :
          /\ fail => Budget(1)
          /\ faults' = IF fail THEN faults + 1 ELSE faults
          /\ IF ~fail /\ start_allowed(isRunning[b])
             THEN /\ isRunning' = [isRunning EXCEPT ![b] = TRUE]
                  /\ runs' = [runs EXCEPT ![i].log = Append(@, BrowserEvent("browser.setup"))]
                  /\ groups' = [groups EXCEPT ![g].pc = "prepared"]
                  /\ UNCHANGED <<cwd, exceptions>>
             ELSE /\ isRunning' = IF browser_setup_cleanup = <<>>
                                  THEN isRunning
                                  ELSE [isRunning EXCEPT ![b] = FALSE]
                  /\ AfterRun(g, i,
                       [r EXCEPT !.log = browser_setup_raised(@),
                                 !.raised = @ \cup {"bsetup"},
                                 !.escaped = TRUE])
  /\ UNCHANGED <<cfg, probes, attached, rpc, handlers, lastCall>>
  /\ UNCHANGED <<sleep, mergeLog, flags, env, binaries, storyFilter>>

StoryOutcomes == {"ok", "raise", "timeout", "crash", "background"}

Error(op, probe) == [op |-> op, probe |-> probe]

\* Run.run with tear_down after the try statement instead of in its finally clause.
tear_down_unless_raised(is_dry_run, propagating) == ~is_dry_run /\ ~propagating

\* Run.run: tear_down sits in the finally clause of the try around Run._run.
tear_down_in_finally(is_dry_run, propagating) == ~is_dry_run

\* Run.run from _advance_state(PREPARE, RUN) to the end of the try/except around
\* Run._run: every scope is entered (ProbeScope.__enter__ runs start under the
\* Run's capturing handler), the story runs, the browser must be in the
\* foreground, and the ExitStack leaves the scopes in reverse order (stop).
\*   SF, TF: the scopes whose start / stop raises;  out: what the story does.
RunStory(g) ==
  /\ g \in 1..Len(groups)
  /\ groups[g].pc = "prepared"
  /\ LET i == Current(g)
         r == runs[i]
         b == r.browser
         n == Len(probes)
         adv == advance_state(r.state, STATE_PREPARE, STATE_RUN)
         r0 == [r EXCEPT !.state = adv.state]
     IN IF ~adv.ok
        THEN /\ AfterRun(g, i, [r0 EXCEPT !.escaped = TRUE])
             /\ UNCHANGED <<isRunning, faults>>
        ELSE IF cfg.is_dry_run
        THEN /\ AfterRun(g, i, r0)
             /\ UNCHANGED <<isRunning, faults>>
        ELSE \E SF \in SUBSET (1..n), out \in StoryOutcomes, TF \in SUBSET (1..n) :
          LET nf == Cardinality(SF) + Cardinality(TF) + (IF out = "ok" THEN 0 ELSE 1)
              \* with throw the capturing handler re-raises: enter_context throws
              \* before the ExitStack is entered, so no scope is ever left
              thr == Propagates(probe_start_stop_scope, cfg.throw)
              startAbort == thr /\ SF # {}
              started == IF startAbort THEN SubSeq(Indices(probes), 1, Min(SF))
                                       ELSE Indices(probes)
              stopped == IF startAbort THEN <<>> ELSE Reverse(Indices(probes))
              storyLog == IF startAbort THEN <<>>
                          ELSE <<[op |-> "story.run", probe |-> "story"]>>
              timeoutErr == IF out = "timeout" THEN <<Error("timeout", "story")>> ELSE <<>>
              propagating == \/ startAbort
                             \/ out \in {"raise", "crash", "background"}
                             \/ cfg.throw /\ out = "timeout"
                             \/ thr /\ TF # {}
              runErr == IF propagating THEN <<Error("Run.run", "story")>> ELSE <<>>
              r1 == [r0 EXCEPT
                       !.log = @ \o Events("start", probes, started) \o storyLog
                                 \o Events("stop", probes, stopped),
                       !.errors = @ \o Events("start", probes, Pick(started, SF))
                                    \o timeoutErr
                                    \o Events("stop", probes, Pick(stopped, TF))
                                    \o runErr,
                       !.raised = @ \cup (IF SF # {} THEN {"start"} ELSE {})
                                    \cup (IF out \in {"raise", "timeout", "crash"}
                                          THEN {"story"} ELSE {})
                                    \cup (IF out = "background" THEN {"foreground"} ELSE {})
                                    \cup (IF TF # {} THEN {"stop"} ELSE {}),
                       !.escaped = cfg.throw /\ propagating]
          IN /\ Budget(nf)
             /\ thr => Cardinality(SF) <= 1
             /\ startAbort => (out = "ok" /\ TF = {})
             /\ faults' = faults + nf
             /\ isRunning' = IF out = "crash" THEN [isRunning EXCEPT ![b] = FALSE]
                                              ELSE isRunning
             /\ IF tear_down_in_finally(cfg.is_dry_run, propagating)
                THEN /\ runs' = [runs EXCEPT ![i] = r1]
                     /\ groups' = [groups EXCEPT ![g].pc = "teardown"]
                     /\ UNCHANGED <<cwd, exceptions>>
                ELSE AfterRun(g, i, r1)
  /\ UNCHANGED <<cfg, probes, attached, rpc, handlers, lastCall>>
  /\ UNCHANGED <<sleep, mergeLog, flags, env, binaries, storyFilter>>

\* Run.tear_down: the browser is quit only while it is still running.
quits_browser(running) == running # FALSE

\* Run._tear_down_probe_scopes without reversed(...).
tear_down_in_setup_order(scopes) == scopes

\* Run._tear_down_probe_scopes: the scopes are torn down in reverse order.
tear_down_order(scopes) == Reverse(scopes)

\* Fold of Run._tear_down_probe_scopes over the invoked scopes: the results of
\* the scopes whose tear_down returned.
RECURSIVE TornDown(_, _, _)
TornDown(res, order, F) ==
  IF order = <<>> THEN res
  ELSE TornDown(IF Head(order) \in F THEN res
                ELSE SetResult(res, probes[Head(order)], "data"),
                Tail(order), F)

\* Position of the first element of `order` that lies in F (0 if none).
FirstIn(order, F) ==
  IF \E k \in 1..Len(order) : order[k] \in F
  THEN Min({k \in 1..Len(order) : order[k] \in F})
  ELSE 0

\* Run.tear_down(probe_scopes) as Run.run calls it (is_shutdown = False), then the
\* exit of Run.run.
\*   qf: browser.quit raises (still: whether the browser survived it);
\*   F: the scopes whose tear_down raises.
TearDown(g) ==
  /\ g \in 1..Len(groups)
  /\ groups[g].pc = "teardown"
  /\ LET i == Current(g)
         r == runs[i]
         b == r.browser
         n == Len(probes)
         adv == advance_state(r.state, STATE_RUN, STATE_DONE)
         r0 == [r EXCEPT !.state = adv.state]
     IN IF ~adv.ok
        THEN /\ AfterRun(g, i, [r0 EXCEPT !.escaped = TRUE])
             /\ UNCHANGED <<isRunning, handlers, faults>>
        ELSE \E qf \in BOOLEAN, still \in BOOLEAN, F \in SUBSET (1..n) :
          LET quits == quits_browser(isRunning[b])
              quitAbort == quits /\ qf /\ Propagates(quit_scope, cfg.throw)
              tdThrows == Propagates(tear_down_scope, cfg.throw)
              full == tear_down_order(Indices(probes))
              cut == FirstIn(full, F)
              order == IF quitAbort THEN <<>>
                       ELSE IF tdThrows /\ cut > 0 THEN SubSeq(full, 1, cut)
                       ELSE full
              scopeAbort == tdThrows /\ F # {}
              nf == Cardinality(F) + (IF qf THEN 1 ELSE 0)
              quitErr == IF quits /\ qf THEN <<Error("Quit browser", "browser")>> ELSE <<>>
              errs == r0.errors \o quitErr \o Events("teardown", probes, Pick(order, F))
              \* the errors array the results summary scope serialises in its tear_down
              pos == FirstIn(order, {1})
              written == pos > 0 /\ 1 \notin F
              before == Len(r0.errors) + Len(quitErr)
                        + Len(Pick(SubSeq(order, 1, IF pos > 0 THEN pos - 1 ELSE 0), F))
              r1 == [r0 EXCEPT
                       !.log = @ \o (IF quits THEN <<BrowserEvent("browser.quit")>> ELSE <<>>)
                                 \o Events("tear_down", probes, order),
                       !.errors = errs,
                       !.results = TornDown(@, order, F),
                       !.summary = IF written THEN before ELSE @,
                       !.tmp_dir = IF quitAbort \/ scopeAbort THEN @
                                   ELSE IF @ = "created" THEN "removed" ELSE @,
                       !.quit_skipped = ~quits,
                       !.raised = @ \cup (IF quits /\ qf THEN {"quit"} ELSE {})
                                    \cup (IF F # {} THEN {"teardown"} ELSE {}),
                       !.escaped = @ \/ quitAbort \/ scopeAbort]
          IN /\ Budget(nf)
             /\ qf => quits
             /\ still => qf
             /\ quitAbort => F = {}
             /\ tdThrows => Cardinality(F) <= 1
             /\ faults' = faults + nf
             /\ isRunning' = IF quits THEN [isRunning EXCEPT ![b] = still] ELSE isRunning
             /\ handlers' = IF \E k \in 1..Len(order) :
                                 order[k] = LogProbeIndex /\ order[k] \notin F
                            THEN handlers \ {i} ELSE handlers
             /\ AfterRun(g, i, r1)
  /\ UNCHANGED <<cfg, probes, attached, rpc, lastCall>>
  /\ UNCHANGED <<sleep, mergeLog, flags, env, binaries, storyFilter>>

\* ------------------------------------------------------ direct API calls
\* After Runner.run a client calls Run.run() on a Run that has left INITIAL: Run.setup fails in
\* _advance_state and ChangeCWD restores the working directory.
ClientRun(i) ==
  /\ rpc \in {"returned", "raised"}
  /\ i \in 1..Len(runs)
  /\ runs[i].state # STATE_INITIAL
  /\ LET adv == advance_state(runs[i].state, STATE_INITIAL, STATE_PREPARE)
     IN /\ runs' = [runs EXCEPT ![i].state = adv.state]
        /\ lastCall' = IF adv.ok THEN "run ok" ELSE "run failed"
  /\ UNCHANGED <<cfg, probes, attached, groups, rpc, isRunning, handlers, cwd,
                 exceptions, faults>>
  /\ UNCHANGED <<sleep, mergeLog, flags, env, binaries, storyFilter>>

\* A client calls Run.tear_down(scopes) on a Run that is not in RUN, for
\* instance a second time: it fails in _advance_state.
ClientTearDown(i) ==
  /\ rpc \in {"returned", "raised"}
  /\ i \in 1..Len(runs)
  /\ runs[i].state # STATE_RUN
  /\ LET adv == advance_state(runs[i].state, STATE_RUN, STATE_DONE)
     IN /\ runs' = [runs EXCEPT ![i].state = adv.state]
        /\ lastCall' = IF adv.ok THEN "tear_down ok" ELSE "tear_down failed"
  /\ UNCHANGED <<cfg, probes, attached, groups, rpc, isRunning, handlers, cwd,
                 exceptions, faults>>
  /\ UNCHANGED <<sleep, mergeLog, flags, env, binaries, storyFilter>>

\* ------------------------------------------------------------ merging
\* RepetitionsRunGroup.groups with the story alone as the key.
RepetitionsRunGroup_groups_by_story(rs) ==
  group_by([i \in 1..Len(rs) |-> rs[i].story])

\* RepetitionsRunGroup.groups: the Runs grouped by (story, browser), each group
\* a sequence of run positions.
RepetitionsRunGroup_groups(rs) ==
  group_by([i \in 1..Len(rs) |-> <<rs[i].story, rs[i].browser>>])

\* StoriesRunGroup.groups: the RepetitionsRunGroups grouped by browser, each
\* group a sequence of positions in the list of RepetitionsRunGroups.
StoriesRunGroup_groups(rs) ==
  LET reps == RepetitionsRunGroup_groups(rs)
  IN group_by([k \in 1..Len(reps) |-> rs[reps[k][1]].browser])

\* Runner._tear_down with the three levels merged outermost first.
merge_levels_outermost_first == <<"browsers", "stories", "repetitions">>

\* Runner._tear_down: the levels of the merge cascade, in the order they run.
merge_levels == <<"repetitions", "stories", "browsers">>

\* The RunGroups of a level, each as the sequence of its children: Runs for a
\* RepetitionsRunGroup, RepetitionsRunGroups for a StoriesRunGroup,
\* StoriesRunGroups for the BrowsersRunGroup.
LevelGroups(level) ==
  CASE level = "repetitions" -> RepetitionsRunGroup_groups(runs)
    [] level = "stories" -> StoriesRunGroup_groups(runs)
    [] level = "browsers" -> <<Indices(StoriesRunGroup_groups(runs))>>

\* RunGroup.merge iterating the probes in attach order.
merge_in_attach_order(ps) == ps

\* RunGroup.merge: for probe in reversed(runner.probes).
merge_order(ps) == Reverse(ps)

\* RunGroup.merge with the hook under Annotator.info.
merge_scope_info == "info"

\* RunGroup.merge: each hook runs under Annotator.capture.
merge_scope == "capture"

\* RunGroup.merge: a result that is not None is stored in the group's
\* ProbeResultDict.
stores_result(out) == out \notin {"raise", "none"}

\* The group's ProbeResultDict holds a result for the probe.
Stored(log, level, k, p) ==
  \E a \in 1..Len(log) :
    /\ log[a].level = level /\ log[a].group = k /\ log[a].probe = p
    /\ stores_result(log[a].out)

HasResult(i, p) == \E a \in 1..Len(runs[i].results) : runs[i].results[a][1] = p

\* RunResultsSummaryProbe.merge_repetitions reads run.results[self] of every Run
\* and merge_stories reads story_group.results[self] of every
\* RepetitionsRunGroup: a missing entry is a KeyError.
MissingInput(log, level, children, p) ==
  /\ p = "results"
  /\ \/ level = "repetitions" /\ \E c \in 1..Len(children) : ~HasResult(children[c], p)
     \/ level = "stories"
          /\ \E c \in 1..Len(children) : ~Stored(log, "repetitions", children[c], p)

\* The subsets of 1..n with at most k elements.
RECURSIVE FaultSets(_, _)
FaultSets(n, k) ==
  IF k <= 0 THEN {{}}
  ELSE LET smaller == FaultSets(n, k - 1)
       IN smaller \cup {S \cup {m} : S \in smaller, m \in 1..n}

MergeStage == CASE rpc = "joined" -> 1 [] rpc = "merged1" -> 2 [] rpc = "merged2" -> 3
                [] OTHER -> 0

\* One loop of Runner._tear_down: group.merge(self) for every group of the
\* level, then the group's errors are added to the Runner's annotator.
\*   F: the hook calls that raise on their own.
MergeLevel ==
  /\ ~cfg.is_dry_run
  /\ MergeStage > 0
  /\ LET level == merge_levels[MergeStage]
         gs == LevelGroups(level)
         order == merge_order(probes)
         n == Len(order)
         group(m) == ((m - 1) \div n) + 1
         probe(m) == order[((m - 1) % n) + 1]
         total == Len(gs) * n
     IN \E F \in FaultSets(total, MaxFaults - faults) :
          LET raising(m) == m \in F \/ MissingInput(mergeLog, level, gs[group(m)], probe(m))
              entry(m) == [level |-> level, group |-> group(m), probe |-> probe(m),
                           out |-> IF raising(m) THEN "raise" ELSE "result"]
              bad == {m \in 1..total : raising(m)}
              aborts == bad # {} /\ Propagates(merge_scope, cfg.throw)
              last == IF aborts THEN Min(bad) ELSE total
              captured == SelectSeq([m \in 1..last |-> m],
                                    LAMBDA m : raising(m) /\ Recorded(merge_scope))
          IN /\ faults + Cardinality(F) <= MaxFaults
             /\ \A m \in F : ~MissingInput(mergeLog, level, gs[group(m)], probe(m))
             /\ faults' = faults + Cardinality(F)
             /\ mergeLog' = mergeLog \o [m \in 1..last |-> entry(m)]
             /\ exceptions' = IF aborts THEN exceptions
                              ELSE exceptions \o
                                   [k \in 1..Len(captured) |->
                                      [run |-> 0,
                                       error |-> [op |-> level, probe |-> probe(captured[k])]]]
             /\ rpc' = IF aborts THEN "raised"
                       ELSE CASE MergeStage = 1 -> "merged1"
                              [] MergeStage = 2 -> "merged2"
                              [] MergeStage = 3 -> "merged3"
  /\ UNCHANGED <<cfg, probes, attached, runs, groups, isRunning, handlers, cwd,
                 lastCall, sleep>>
  /\ UNCHANGED <<flags, env, binaries, storyFilter>>

\* Annotator.assert_success: raises unless the annotator is empty.
assert_success(errors) == errors = <<>>

\* Runner.is_success
is_success == Len(runs) > 0 /\ assert_success(exceptions)

\* The end of Runner.run: self._exceptions.assert_success(..., RunnerException).
Finish ==
  /\ rpc = "merged3" \/ (rpc = "joined" /\ cfg.is_dry_run)
  /\ rpc' = IF assert_success(exceptions) THEN "returned" ELSE "raised"
  /\ UNCHANGED <<cfg, probes, attached, runs, groups, isRunning, handlers, cwd,
                 exceptions, faults, lastCall, sleep, mergeLog>>
  /\ UNCHANGED <<flags, env, binaries, storyFilter>>

\* ------------------------------------------------------------------ Spec
Next ==
  \/ RunnerSetup
  \/ GetThreadGroups
  \/ StartGroup
  \/ JoinGroup
  \/ MergeLevel
  \/ Finish
  \/ \E g \in 1..Len(groups) : RunEnter(g)
  \/ \E g \in 1..Len(groups) : BrowserSetup(g)
  \/ \E g \in 1..Len(groups) : RunStory(g)
  \/ \E g \in 1..Len(groups) : TearDown(g)
  \/ \E i \in 1..Len(runs) : ClientRun(i)
  \/ \E i \in 1..Len(runs) : ClientTearDown(i)

Spec == Init /\ [][Next]_vars

\* Runner.__init__ and the planning steps of Runner.run only (the Runs and the
\* thread groups are built, nothing is started), for larger configurations.
InitPlan == InitWith(PlanMaxBrowsers, PlanMaxStories, PlanMaxRepetitions, PlanMaxRuns)

NextPlan ==
  \/ RunnerSetup
  \/ GetThreadGroups

SpecPlan == InitPlan /\ [][NextPlan]_vars

\* Bounds of the specification of the merge cascade alone.
MergeMaxBrowsers == 2
MergeMaxStories == 2
MergeMaxRepetitions == 2

\* A Run after a Run.run in which nothing failed.
DoneRun(r) ==
  LET n == Len(probes)
      all == Indices(probes)
  IN [r EXCEPT
        !.state = STATE_DONE,
        !.log = Events("setup", probes, all) \o <<BrowserEvent("browser.setup")>>
                \o Events("start", probes, all)
                \o <<[op |-> "story.run", probe |-> "story"]>>
                \o Events("stop", probes, Reverse(all))
                \o <<BrowserEvent("browser.quit")>>
                \o Events("tear_down", probes, tear_down_order(all)),
        !.results = TornDown(Seeded(n), tear_down_order(all), {}),
        !.summary = 0,
        !.tmp_dir = IF is_remote(r.browser)
                       /\ \E j \in 1..n : RESULT_LOCATION(probes[j]) = "browser"
                    THEN "removed" ELSE "none",
        !.out_dir = TRUE,
        !.exited = TRUE]

\* The state in which Runner._run returns after a non-dry execution on a single
\* thread (thread_mode none) in which nothing failed.
InitMerge ==
  /\ \E nb \in 1..MergeMaxBrowsers, ns \in 1..MergeMaxStories,
        nr \in 1..MergeMaxRepetitions, th \in BOOLEAN, rf \in 1..(MergeMaxBrowsers + 1) :
       /\ rf <= nb + 1
       /\ cfg = [browsers |-> nb, stories |-> ns, repetitions |-> nr,
                 thread_mode |-> "none", throw |-> th, is_dry_run |-> FALSE,
                 remote_from |-> rf]
       /\ attached = {<<DefaultProbes[i], b>> : i \in 1..Len(DefaultProbes), b \in 1..nb}
                     \cup {<<UserProbeNames[i], b>> : i \in 1..MaxUserProbes, b \in 1..nb}
       /\ isRunning = [b \in 1..nb |-> FALSE]
  /\ probes = DefaultProbes \o SubSeq(UserProbeNames, 1, MaxUserProbes)
  /\ runs = [i \in 1..Len(get_runs) |-> DoneRun(get_runs[i])]
  /\ groups = <<[runs |-> Indices(get_runs), idx |-> Len(get_runs),
                 pc |-> "finished", joined |-> TRUE]>>
  /\ rpc = "joined"
  /\ handlers = {}
  /\ cwd = 0
  /\ exceptions = <<>>
  /\ faults = 0
  /\ lastCall = "none"
  /\ sleep = "released"
  /\ mergeLog = <<>>
  /\ flags = NoFlags
  /\ env = NoEnv
  /\ binaries = Indices(isRunning)
  /\ storyFilter = NoStoryFilter

NextMerge ==
  \/ MergeLevel
  \/ Finish

SpecMerge == InitMerge /\ [][NextMerge]_vars

\* ================================================================ claims
\* The operations recorded for probe p in the log of run i, in order.
HookOps(i, p) ==
  LET es == SelectSeq(runs[i].log, LAMBDA e : e.probe = p)
  IN [k \in 1..Len(es) |-> es[k].op]

\* The probes whose hook `op` was invoked in run i, in order of invocation.
OpOrder(i, op) ==
  LET es == SelectSeq(runs[i].log, LAMBDA e : e.op = op)
  IN [k \in 1..Len(es) |-> es[k].probe]

Invoked(i, op) == \E k \in 1..Len(runs[i].log) : runs[i].log[k].op = op

ProbeSet == {probes[j] : j \in 1..Len(probes)}

Range(s) == {s[k] : k \in 1..Len(s)}

\* Runner._setup captured a failure of browser.setup_binary.
BinaryFailed ==
  \E k \in 1..Len(exceptions) : exceptions[k].error.op = "Preparing browser"

\* Run i is between the start of its setup and the end of its teardown.
Active(i) ==
  \E g \in 1..Len(groups) :
    /\ groups[g].pc \in {"bsetup", "prepared", "teardown"}
    /\ Current(g) = i

\* C1: with throw=false, a failure raised inside a Run (setup, story or
\* teardown phase) never aborts its siblings: once the thread of a group has
\* ended, every Run that follows a failed Run in that group is DONE.
C1_FailureNeverAbortsSiblings ==
  (~cfg.throw /\ ~cfg.is_dry_run) =>
    \A g \in 1..Len(groups) :
      Ended(g) =>
        \A k \in 1..Len(groups[g].runs), l \in 1..Len(groups[g].runs) :
          (k < l /\ runs[groups[g].runs[k]].raised # {})
            => runs[groups[g].runs[l]].state = STATE_DONE

\* C2: the state of a Run only ever stays or advances by exactly one step, and a
\* transition attempted from the wrong state (Run.run on a Run that left
\* INITIAL, Run.tear_down on a Run that is not in RUN) fails and leaves every
\* Run unchanged.
C2_StateAdvancesOneStep ==
  [][/\ \A i \in 1..Len(runs) :
          i <= Len(runs') =>
            /\ runs'[i].state \in {runs[i].state, runs[i].state + 1}
            /\ runs'[i].state \in STATE_INITIAL..STATE_DONE
     /\ (\E i \in 1..Len(runs) : ClientRun(i))
          => (lastCall' = "run failed" /\ runs' = runs)
     /\ (\E i \in 1..Len(runs) : ClientTearDown(i))
          => (lastCall' = "tear_down failed" /\ runs' = runs)]_vars

\* C2 witness: a second tear_down was attempted on a DONE Run and failed.
C2_Witness ==
  /\ lastCall = "tear_down failed"
  /\ \E i \in 1..Len(runs) : runs[i].state = STATE_DONE

\* C3: once a non-dry Run.run has exited, every attached probe had setup,
\* start, stop and tear_down invoked exactly once, in this order.
C3_HooksExactlyOnceInOrder ==
  ~cfg.is_dry_run =>
    \A i \in 1..Len(runs) :
      runs[i].exited =>
        \A p \in ProbeSet : HookOps(i, p) = <<"setup", "start", "stop", "tear_down">>

\* C4: once Run.run has exited, the tear_down hooks were invoked in exactly the
\* reverse of the order of the setup hooks, also when a setup raised.
C4_TeardownReversesSetup ==
  ~cfg.throw =>
    \A i \in 1..Len(runs) :
      runs[i].exited => OpOrder(i, "tear_down") = Reverse(OpOrder(i, "setup"))

\* C5: if a scope's setup raised (throw=false), Run.run does not throw, every
\* scope's setup and browser.setup still ran, the story was executed and the
\* failing probe's tear_down was invoked.
C5_SetupErrorIsCaptured ==
  ~cfg.throw =>
    \A i \in 1..Len(runs) :
      (runs[i].exited /\ "setup" \in runs[i].raised) =>
        /\ ~runs[i].escaped
        /\ OpOrder(i, "setup") = probes
        /\ Invoked(i, "browser.setup")
        /\ Invoked(i, "story.run")
        /\ Range(OpOrder(i, "tear_down")) = ProbeSet

\* The part of C6 that does not concern the browser: after Story.run raised
\* (throw=false) and Run.run exited, every started scope was stopped, every
\* scope was torn down, the Run is DONE, the error is in the annotator and the
\* results summary, if written, lists at least one error.
StoryFailureTornDown(i) ==
  /\ Range(OpOrder(i, "stop")) = Range(OpOrder(i, "start"))
  /\ Range(OpOrder(i, "tear_down")) = ProbeSet
  /\ runs[i].state = STATE_DONE
  /\ runs[i].errors # <<>>
  /\ runs[i].summary # 0

StoryRaised(i) == runs[i].exited /\ "story" \in runs[i].raised /\ ~cfg.throw

\* C6 as stated: when Story.run raises (throw=false), every started scope is
\* stopped, the browser is quit, every scope is torn down, the state is DONE and
\* the error is recorded before the results summary is written.
C6_StoryFailureQuitsBrowser ==
  \A i \in 1..Len(runs) :
    StoryRaised(i) => (StoryFailureTornDown(i) /\ Invoked(i, "browser.quit"))

\* C6 as amended: when Story.run raises (throw=false) the Run completes its
\* teardown: every started scope is stopped, the browser is quit unless
\* tear_down finds it no longer running, every scope is torn down, the state is
\* DONE and the error is recorded before the results summary is written.
C6_StoryFailureCompletesTeardown ==
  \A i \in 1..Len(runs) :
    StoryRaised(i) =>
      /\ StoryFailureTornDown(i)
      /\ Invoked(i, "browser.quit") \/ runs[i].quit_skipped

\* C6 witness: a Run whose story raised is DONE, its browser was quit and its
\* results.json was written with one error.
C6_Witness ==
  \E i \in 1..Len(runs) :
    /\ StoryRaised(i)
    /\ runs[i].state = STATE_DONE
    /\ Invoked(i, "browser.quit")
    /\ runs[i].summary = 1

\* C7 as stated: once a non-dry Run.run has exited, if browser.setup was entered
\* then browser.quit or browser.force_quit was invoked.
C7_BrowserQuitOrForceQuit ==
  ~cfg.is_dry_run =>
    \A i \in 1..Len(runs) :
      (runs[i].exited /\ Invoked(i, "browser.setup")) =>
        (Invoked(i, "browser.quit") \/ Invoked(i, "browser.force_quit"))

\* C7 as amended: once a non-dry Run.run has exited, if browser.setup was entered
\* then browser.quit or browser.force_quit was invoked, unless tear_down found
\* the browser no longer running (crashed or closed).
C7_BrowserReleased ==
  ~cfg.is_dry_run =>
    \A i \in 1..Len(runs) :
      (runs[i].exited /\ Invoked(i, "browser.setup")) =>
        \/ Invoked(i, "browser.quit")
        \/ Invoked(i, "browser.force_quit")
        \/ runs[i].quit_skipped

\* C7 witness: browser.setup raised and the browser was force-quit.
C7_Witness ==
  \E i \in 1..Len(runs) :
    /\ runs[i].exited
    /\ "bsetup" \in runs[i].raised
    /\ Invoked(i, "browser.force_quit")

\* C8: once a non-dry Run.run has exited (also by an exception of a later
\* scope's setup or of browser.setup), the log handler of the Run is no longer
\* on the root logger and its browser tmp dir, if created, is deleted.
C8_RunResourcesReleased ==
  ~cfg.is_dry_run =>
    \A i \in 1..Len(runs) :
      runs[i].exited => (i \notin handlers /\ runs[i].tmp_dir # "created")

\* C9: in every thread mode, two Runs that share a Browser are never both
\* between the start of their setup and the end of their teardown.
C9_BrowserExclusivelyOwned ==
  ~cfg.is_dry_run =>
    \A i \in 1..Len(runs), j \in 1..Len(runs) :
      (i # j /\ runs[i].browser = runs[j].browser) => ~(Active(i) /\ Active(j))

\* C10: the Runner's annotator is mutated only after a thread group has been
\* joined: as long as no group is joined it holds no error of a Run.
C10_RunnerAnnotatorOnlyAfterJoin ==
  (\E k \in 1..Len(exceptions) : exceptions[k].run > 0)
    => \E g \in 1..Len(groups) : groups[g].joined

\* C11: within one RunThreadGroup the Runs execute strictly sequentially in list
\* order: every Run before the one the thread is working on has left Run.run,
\* and no Run after it has begun.
C11_GroupRunsSequential ==
  \A g \in 1..Len(groups) :
    \A k \in 1..Len(groups[g].runs) :
      LET r == runs[groups[g].runs[k]]
      IN /\ k < groups[g].idx => r.exited
         /\ (k > groups[g].idx \/ groups[g].pc = "new") =>
              (r.state = STATE_INITIAL /\ r.log = <<>> /\ ~r.exited)

\* C11 witness: a thread is inside the second Run of its group, the first Run
\* of the group is DONE.
C11_Witness ==
  \E g \in 1..Len(groups) :
    /\ groups[g].idx = 2
    /\ groups[g].pc = "prepared"
    /\ runs[groups[g].runs[1]].state = STATE_DONE
    /\ runs[groups[g].runs[2]].state = STATE_PREPARE

\* The groups of run positions ThreadMode.group returned.
GroupOf(i) == {g \in 1..Len(groups) : \E k \in 1..Len(groups[g].runs) : groups[g].runs[k] = i}

SameGroup(i, j) == GroupOf(i) \cap GroupOf(j) # {}

\* C12: ThreadMode.group returns a partition of the Runs into non-empty groups;
\* mode none gives one group with all Runs in index order, mode run one
\* singleton group per Run, mode browser puts two Runs together iff they have
\* the same Browser and mode platform iff they have the same platform.
C12_GroupPartitionsRuns ==
  rpc = "start" =>
    /\ \A g \in 1..Len(groups) : groups[g].runs # <<>>
    /\ \A i \in 1..Len(runs) : Cardinality(GroupOf(i)) = 1
    /\ \A g \in 1..Len(groups) : \A k, l \in 1..Len(groups[g].runs) :
          /\ groups[g].runs[k] \in 1..Len(runs)
          /\ k # l => groups[g].runs[k] # groups[g].runs[l]
    /\ cfg.thread_mode = "none" =>
          (Len(groups) = 1 /\ groups[1].runs = [i \in 1..Len(runs) |-> i])
    /\ cfg.thread_mode = "run" =>
          (Len(groups) = Len(runs) /\ \A g \in 1..Len(groups) : Len(groups[g].runs) = 1)
    /\ cfg.thread_mode = "browser" =>
          \A i, j \in 1..Len(runs) : SameGroup(i, j) <=> runs[i].browser = runs[j].browser
    /\ cfg.thread_mode = "platform" =>
          \A i, j \in 1..Len(runs) :
            SameGroup(i, j) <=> platform(runs[i].browser) = platform(runs[j].browser)

\* C12 witness: mode platform with local and remote browsers: two groups, one of
\* them holding Runs of two different browsers.
C12_Witness ==
  /\ rpc = "start"
  /\ cfg.thread_mode = "platform"
  /\ Len(groups) = 2
  /\ \E i, j \in 1..Len(runs) : SameGroup(i, j) /\ runs[i].browser # runs[j].browser

\* (repetition, story, browser) of Run i comes before that of Run j.
TripleBefore(i, j) ==
  \/ runs[i].repetition < runs[j].repetition
  \/ /\ runs[i].repetition = runs[j].repetition
     /\ \/ runs[i].story < runs[j].story
        \/ runs[i].story = runs[j].story /\ runs[i].browser < runs[j].browser

LevelRank(level) ==
  CASE level = "repetitions" -> 1 [] level = "stories" -> 2 [] level = "browsers" -> 3

\* The positions of mergeLog at which the hook of probe p was called for group k
\* of the level.
Calls(level, k, p) ==
  {a \in 1..Len(mergeLog) :
     mergeLog[a].level = level /\ mergeLog[a].group = k /\ mergeLog[a].probe = p}

\* Every group of the level had the hook of every probe called before position a.
LevelMergedBefore(level, a) ==
  \A k \in 1..Len(LevelGroups(level)), p \in ProbeSet :
    \E c \in Calls(level, k, p) : c < a

Ended_Runner == rpc \in {"returned", "raised"}

AttachPosition(p) == CHOOSE j \in 1..Len(probes) : probes[j] = p

\* C15: within each RunGroup the merge hooks are called in reverse attach
\* order, so the results-summary probe is merged last: when its hook runs,
\* every other attached probe had its hook called for the group, and the
\* group's ProbeResultDict holds the result of each of them that returned one.
C15_MergeReverseAttachOrder ==
  \A a \in 1..Len(mergeLog) :
    LET e == mergeLog[a]
    IN /\ \A b \in 1..Len(mergeLog) :
            (a < b /\ mergeLog[b].level = e.level /\ mergeLog[b].group = e.group)
              => AttachPosition(mergeLog[b].probe) < AttachPosition(e.probe)
       /\ e.probe = "results" =>
            \A q \in ProbeSet \ {"results"} :
              /\ \E b \in Calls(e.level, e.group, q) : b < a
              /\ \A b \in Calls(e.level, e.group, q) :
                    mergeLog[b].out = "result" =>
                      Stored(SubSeq(mergeLog, 1, a - 1), e.level, e.group, q)

\* C15 witness: the results-summary probe merged a StoriesRunGroup in which the
\* hook of another probe had raised.
C15_Witness ==
  \E a, b \in 1..Len(mergeLog) :
    /\ b < a
    /\ mergeLog[a].level = "stories" /\ mergeLog[b].level = "stories"
    /\ mergeLog[a].group = mergeLog[b].group
    /\ mergeLog[a].probe = "results" /\ mergeLog[a].out = "result"
    /\ mergeLog[b].out = "raise"

\* The children of group k of the level have completed.
ChildrenCompleted(level, k) ==
  LET children == LevelGroups(level)[k]
  IN \A c \in 1..Len(children) :
       CASE level = "repetitions" -> runs[children[c]].exited
         [] level = "stories" -> \A p \in ProbeSet : Calls("repetitions", children[c], p) # {}
         [] level = "browsers" -> \A p \in ProbeSet : Calls("stories", children[c], p) # {}

\* C16: after a non-dry Runner.run (throw=false) that got past its setup, for
\* every RunGroup of every level and every attached probe the merge hook was
\* called exactly once, the children of the group had completed, and a returned
\* result is stored in the group's ProbeResultDict under the probe's name.
C16_MergeHooksExactlyOnce ==
  (Ended_Runner /\ ~cfg.is_dry_run /\ ~cfg.throw /\ groups # <<>>) =>
    \A lv \in 1..Len(merge_levels) :
      \A k \in 1..Len(LevelGroups(merge_levels[lv])), p \in ProbeSet :
        /\ Cardinality(Calls(merge_levels[lv], k, p)) = 1
        /\ ChildrenCompleted(merge_levels[lv], k)
        /\ \A a \in Calls(merge_levels[lv], k, p) :
              mergeLog[a].out = "result" => Stored(mergeLog, merge_levels[lv], k, p)

\* Every hook of every group of every level was called.
AllMerged ==
  \A lv \in 1..Len(merge_levels) :
    \A k \in 1..Len(LevelGroups(merge_levels[lv])), p \in ProbeSet :
      Calls(merge_levels[lv], k, p) # {}

\* C17: an exception raised by a merge hook (throw=false) does not abort
\* merging: once Runner.run has ended, every probe of every group of every
\* level was merged and the error is in the Runner's annotator.
C17_MergeErrorDoesNotAbort ==
  (Ended_Runner /\ ~cfg.throw) =>
    \A a \in 1..Len(mergeLog) :
      mergeLog[a].out = "raise" =>
        /\ AllMerged
        /\ \E k \in 1..Len(exceptions) :
              /\ exceptions[k].run = 0
              /\ exceptions[k].error = [op |-> mergeLog[a].level, probe |-> mergeLog[a].probe]

\* C17 witness: the hook of a user probe raised for a RepetitionsRunGroup and
\* the BrowsersRunGroup was merged nevertheless.
C17_Witness ==
  /\ Ended_Runner /\ ~cfg.throw
  /\ \E a, b \in 1..Len(mergeLog) :
       /\ mergeLog[a].level = "repetitions" /\ mergeLog[a].out = "raise"
       /\ mergeLog[a].probe = "probe1"
       /\ mergeLog[b].level = "browsers" /\ mergeLog[b].probe = "results"

\* A Run failed: it recorded an error, its run() threw, or its run() never
\* completed although its thread group was started.
RunFailed(i) == runs[i].errors # <<>> \/ runs[i].escaped \/ ~runs[i].exited

\* C18: Runner.run raises if any Run failed or any captured error remains and
\* returns normally otherwise; Runner.is_success is true iff at least one Run
\* was executed and the Runner's annotator is empty.
C18_RunnerRaisesIffFailed ==
  (Ended_Runner /\ lastCall = "none") =>
    /\ rpc = "raised" <=>
         \/ exceptions # <<>>
         \/ \E a \in 1..Len(mergeLog) : mergeLog[a].out = "raise"
         \/ groups # <<>> /\ \E i \in 1..Len(runs) : RunFailed(i)
    /\ is_success <=> (Len(runs) > 0 /\ exceptions = <<>>)

EnvRejected ==
  \E k \in 1..Len(exceptions) : exceptions[k].error.op = "Preparing Environment"

\* C19: if the environment validation rejects a precondition, Runner.run raises
\* before any Run starts: no thread group is started, no Run leaves INITIAL and
\* no Run has created its directory.
C19_EnvRejectedBeforeRuns ==
  EnvRejected =>
    /\ rpc = "raised"
    /\ groups = <<>>
    /\ \A i \in 1..Len(runs) :
          /\ runs[i].state = STATE_INITIAL /\ ~runs[i].out_dir
          /\ runs[i].log = <<>> /\ ~runs[i].exited

\* C19 witness: the rejection was captured (throw=false), the Runs exist and
\* Runner.run has raised.
C19_Witness ==
  /\ EnvRejected
  /\ ~cfg.throw
  /\ Len(runs) = 2
  /\ rpc = "raised"

\* C20: the sleep inhibitor is held from before the setup, while the Runs
\* execute and while the merge cascade runs, and it is released when
\* Runner.run has ended.
C20_SleepInhibitedThroughout ==
  /\ rpc \in {"groups", "start", "join"} => sleep = "held"
  /\ rpc \in {"merged1", "merged2"} => sleep = "held"
  /\ Ended_Runner => sleep = "released"

AttachMaxBrowsers == 3

BrowserTypes == {"chrome", "safari"}

\* The probes a client attaches: a generic one, a Chromium-only one, and the
\* results summary once more.
AttachProbeNames == {"probe1", "v8.rcs", "results"}

\* Probe.is_compatible: V8RCSProbe accepts Chromium-based browsers only.
is_compatible(p, type) == p # "v8.rcs" \/ type = "chrome"

\* Runner.attach_probe that attaches to every browser it does not fail on.
attach_probe_to_all(ps, att, types, p, matching_browser_only) ==
  LET nb == Len(types)
      bad == {b \in 1..nb : ~is_compatible(p, types[b])}
  IN IF \E j \in 1..Len(ps) : ps[j] = p
     THEN [ok |-> FALSE, probes |-> ps, attached |-> att]
     ELSE IF bad # {} /\ ~matching_browser_only
     THEN [ok |-> FALSE, probes |-> Append(ps, p),
           attached |-> att \cup {<<p, b>> : b \in 1..(Min(bad) - 1)}]
     ELSE [ok |-> TRUE, probes |-> Append(ps, p),
           attached |-> att \cup {<<p, b>> : b \in 1..nb}]

\* Runner.attach_probe: the duplicate assertion fails before anything changes;
\* otherwise the probe is appended and the browsers are visited in order, an
\* incompatible one being skipped (matching_browser_only) or raising, which
\* leaves the probe appended and attached to the browsers visited before.
attach_probe(ps, att, types, p, matching_browser_only) ==
  LET nb == Len(types)
      bad == {b \in 1..nb : ~is_compatible(p, types[b])}
  IN IF \E j \in 1..Len(ps) : ps[j] = p
     THEN [ok |-> FALSE, probes |-> ps, attached |-> att]
     ELSE IF bad # {} /\ ~matching_browser_only
     THEN [ok |-> FALSE, probes |-> Append(ps, p),
           attached |-> att \cup {<<p, b>> : b \in 1..(Min(bad) - 1)}]
     ELSE [ok |-> TRUE, probes |-> Append(ps, p),
           attached |-> att \cup {<<p, b>> : b \in (1..nb) \ bad}]

\* Runner.__init__ over browsers of either type: the default probes are attached.
InitAttach ==
  /\ \E nb \in 1..AttachMaxBrowsers :
       \E types \in [1..nb -> BrowserTypes] :
         /\ cfg = [browsers |-> nb, stories |-> 1, repetitions |-> 1,
                   thread_mode |-> "none", throw |-> FALSE, is_dry_run |-> FALSE,
                   remote_from |-> nb + 1, types |-> types]
         /\ attached = {<<DefaultProbes[i], b>> : i \in 1..Len(DefaultProbes), b \in 1..nb}
         /\ isRunning = [b \in 1..nb |-> FALSE]
  /\ probes = DefaultProbes
  /\ runs = <<>>
  /\ groups = <<>>
  /\ rpc = "setup"
  /\ handlers = {}
  /\ cwd = 0
  /\ exceptions = <<>>
  /\ faults = 0
  /\ lastCall = [op |-> "none", probe |-> "none", matching_browser_only |-> FALSE, ok |-> TRUE]
  /\ sleep = "idle"
  /\ mergeLog = <<>>
  /\ flags = NoFlags
  /\ env = NoEnv
  /\ binaries = <<>>
  /\ storyFilter = NoStoryFilter

\* A client calls Runner.attach_probe(p, matching_browser_only).
AttachProbe(p, matching_browser_only) ==
  /\ LET res == attach_probe(probes, attached, cfg.types, p, matching_browser_only)
     IN /\ probes' = res.probes
        /\ attached' = res.attached
        /\ lastCall' = [op |-> "attach", probe |-> p,
                        matching_browser_only |-> matching_browser_only, ok |-> res.ok]
  /\ UNCHANGED <<cfg, runs, groups, rpc, isRunning, handlers, cwd, exceptions,
                 faults, sleep, mergeLog>>
  /\ UNCHANGED <<flags, env, binaries, storyFilter>>

NextAttach == \E p \in AttachProbeNames, m \in BOOLEAN : AttachProbe(p, m)

SpecAttach == InitAttach /\ [][NextAttach]_vars

IsAttachedProbe(ps, p) == \E j \in 1..Len(ps) : ps[j] = p

\* C22: attach_probe fails, changing nothing, for a probe that is attached
\* already; for a new probe that is incompatible with some browser it fails
\* when matching_browser_only is false; otherwise it succeeds, the probe is
\* appended and it is attached to exactly the compatible browsers.
C22_AttachProbe ==
  [][LET c == lastCall'
         p == c.probe
         bad == {b \in Browsers : ~is_compatible(p, cfg.types[b])}
     IN /\ IsAttachedProbe(probes, p) =>
             ~c.ok /\ probes' = probes /\ attached' = attached
        /\ (~IsAttachedProbe(probes, p) /\ bad # {} /\ ~c.matching_browser_only) => ~c.ok
        /\ (~IsAttachedProbe(probes, p) /\ (bad = {} \/ c.matching_browser_only)) =>
             /\ c.ok
             /\ probes' = Append(probes, p)
             /\ {b \in Browsers : <<p, b>> \in attached'} = Browsers \ bad
             /\ \A q \in AttachProbeNames \ {p}, b \in Browsers :
                  <<q, b>> \in attached' <=> <<q, b>> \in attached]_vars

\* C22 witness: a Chromium-only probe was attached with matching_browser_only
\* to a Runner that has a compatible and an incompatible browser.
C22_Witness ==
  /\ lastCall.op = "attach" /\ lastCall.ok /\ lastCall.matching_browser_only
  /\ lastCall.probe = "v8.rcs"
  /\ \E b \in Browsers : <<"v8.rcs", b>> \in attached
  /\ \E b \in Browsers : <<"v8.rcs", b>> \notin attached

\* --------------------------------------------------- ProbeResultDict.to_json
\* ProbeResultDict.to_json, one value: a path or string becomes a string, None
\* becomes null, a dict an object, a tuple an array; for any other value, a
\* ProbeResult ("empty", "data") among them, no branch assigns the key.
to_json_entry(kind) ==
  CASE kind \in {"path", "str"} -> "string"
    [] kind = "none" -> "null"
    [] kind = "dict" -> "object"
    [] kind = "tuple" -> "array"
    [] OTHER -> "absent"

\* ProbeResultDict.to_json on the sequence of <<probe, kind>> pairs.
to_json(res) ==
  LET kept == SelectSeq(res, LAMBDA e : to_json_entry(e[2]) # "absent")
  IN [k \in 1..Len(kept) |-> <<kept[k][1], to_json_entry(kept[k][2])>>]

\* C23: ProbeResultDict.to_json of a Run's results has exactly one key per
\* probe name stored in the dict.
C23_ToJsonListsEveryProbe ==
  \A i \in 1..Len(runs) :
    {to_json(runs[i].results)[k][1] : k \in 1..Len(to_json(runs[i].results))}
      = {runs[i].results[k][1] : k \in 1..Len(runs[i].results)}

\* Run.group_dir: the parent of the Run's out_dir.
group_dir(r) == <<r.browser, r.story>>

\* The Runs below StoriesRunGroup s.
RunsOfStoriesGroup(s) ==
  LET reps == LevelGroups("repetitions")
      sts == LevelGroups("stories")
  IN UNION {Range(reps[sts[s][c]]) : c \in 1..Len(sts[s])}

BrowsersRunGroupBuilt == \E a \in 1..Len(mergeLog) : mergeLog[a].level = "browsers"

\* C24: once the merge cascade of a non-dry Runner.run has built the
\* BrowsersRunGroup, every Run is in exactly one RepetitionsRunGroup, whose R
\* members agree on path, story and browser; every RepetitionsRunGroup is in
\* exactly one StoriesRunGroup, whose members agree on the browser; there are
\* B*S RepetitionsRunGroups, B StoriesRunGroups and one BrowsersRunGroup, which
\* holds every StoriesRunGroup.
C24_RunGroupTreePartitions ==
  BrowsersRunGroupBuilt =>
    LET reps == LevelGroups("repetitions")
        sts == LevelGroups("stories")
        brs == LevelGroups("browsers")
    IN /\ \A i \in 1..Len(runs) :
            Cardinality({<<k, m>> \in (1..Len(reps)) \X (1..Len(runs)) :
                           m <= Len(reps[k]) /\ reps[k][m] = i}) = 1
       /\ \A k \in 1..Len(reps) :
            /\ Len(reps[k]) = cfg.repetitions
            /\ \A m \in 1..Len(reps[k]) :
                 /\ runs[reps[k][m]].story = runs[reps[k][1]].story
                 /\ runs[reps[k][m]].browser = runs[reps[k][1]].browser
                 /\ group_dir(runs[reps[k][m]]) = group_dir(runs[reps[k][1]])
       /\ \A k \in 1..Len(reps) :
            Cardinality({<<t, c>> \in (1..Len(sts)) \X (1..Len(reps)) :
                           c <= Len(sts[t]) /\ sts[t][c] = k}) = 1
       /\ \A t \in 1..Len(sts) :
            \A i, j \in RunsOfStoriesGroup(t) : runs[i].browser = runs[j].browser
       /\ Len(reps) = cfg.browsers * cfg.stories
       /\ Len(sts) = cfg.browsers
       /\ Len(brs) = 1
       /\ Range(brs[1]) = 1..Len(sts)
       /\ \A a \in 1..Len(mergeLog) :
            mergeLog[a].group \in 1..Len(LevelGroups(mergeLog[a].level))

\* C24 witness: the tree over two browsers, two stories and two repetitions was
\* built and merged.
C24_Witness ==
  /\ BrowsersRunGroupBuilt
  /\ cfg.browsers = 2 /\ cfg.stories = 2 /\ cfg.repetitions = 2
  /\ Len(runs) = 8
  /\ rpc = "returned"

\* ------------------------------------------------------------------ Flags
FlagsMaxLen == 2

FlagClasses == {"Flags", "JSFlags"}

FlagNames == {"--foo", "--no-foo", "--nofoo", "--bar", "--no-bar"}

\* A flag without a value holds None.
FlagValues == {"None", "v1"}

\* The flag a name switches on or off, and whether the name is a negation
\* ("--no-x" or "--nox").
PositiveName(name) == IF name \in {"--foo", "--no-foo", "--nofoo"} THEN "--foo" ELSE "--bar"

IsNegated(name) == name \notin {"--foo", "--bar"}

\* The names that may not be stored together with `name` in a JSFlags object.
OppositeNames(name) ==
  IF IsNegated(name) THEN {PositiveName(name)}
  ELSE {n \in FlagNames : IsNegated(n) /\ PositiveName(n) = name}

HasFlag(data, name) == \E k \in 1..Len(data) : data[k][1] = name

GetFlag(data, name) == data[CHOOSE k \in 1..Len(data) : data[k][1] = name][2]

\* Flags.set that replaces a differing value whether or not override is given.
Flags_set_always_override(data, name, value, override) ==
  IF HasFlag(data, name)
  THEN [ok |-> TRUE,
        data |-> [k \in 1..Len(data) |-> IF data[k][1] = name THEN <<name, value>> ELSE data[k]]]
  ELSE [ok |-> TRUE, data |-> Append(data, <<name, value>>)]

\* Flags.set(name, value, override): a new flag is appended; the value it has
\* already is accepted; another value is refused unless override is given.
Flags_set(data, name, value, override) ==
  IF HasFlag(data, name)
  THEN IF GetFlag(data, name) = value THEN [ok |-> TRUE, data |-> data]
       ELSE IF ~override THEN [ok |-> FALSE, data |-> data]
       ELSE [ok |-> TRUE,
             data |-> [k \in 1..Len(data) |->
                         IF data[k][1] = name THEN <<name, value>> ELSE data[k]]]
  ELSE [ok |-> TRUE, data |-> Append(data, <<name, value>>)]

\* JSFlags.set without the check for the opposite flag.
JSFlags_set_unchecked(data, name, value, override) == Flags_set(data, name, value, override)

\* JSFlags.set: the opposite flag is refused, or removed when override is given,
\* before the flag is set as in Flags.
JSFlags_set(data, name, value, override) ==
  LET conflict == \E n \in OppositeNames(name) : HasFlag(data, n)
  IN IF conflict /\ ~override THEN [ok |-> FALSE, data |-> data]
     ELSE Flags_set(SelectSeq(data, LAMBDA e : e[1] \notin OppositeNames(name)),
                    name, value, override)

set_flag(cls, data, name, value, override) ==
  IF cls = "JSFlags" THEN JSFlags_set(data, name, value, override)
  ELSE Flags_set(data, name, value, override)

\* The constructor sets the initial items one after the other, without override.
RECURSIVE construct_flags(_, _, _)
construct_flags(cls, data, items) ==
  IF items = <<>> THEN [ok |-> TRUE, data |-> data]
  ELSE LET res == set_flag(cls, data, Head(items)[1], Head(items)[2], FALSE)
       IN IF res.ok THEN construct_flags(cls, res.data, Tail(items))
          ELSE [ok |-> FALSE, data |-> data]

FlagItems == FlagNames \X FlagValues

NoFlagsCall == [op |-> "none", name |-> "none", value |-> "None", override |-> FALSE, ok |-> TRUE]

\* A client has constructed an empty object of one of the classes.
InitFlags ==
  /\ \E cls \in FlagClasses : flags = [cls |-> cls, data |-> <<>>]
  /\ env = NoEnv
  /\ binaries = <<>>
  /\ storyFilter = NoStoryFilter
  /\ cfg = [browsers |-> 1, stories |-> 1, repetitions |-> 1, thread_mode |-> "none",
            throw |-> FALSE, is_dry_run |-> FALSE, remote_from |-> 2]
  /\ probes = DefaultProbes
  /\ attached = {}
  /\ isRunning = <<FALSE>>
  /\ runs = <<>>
  /\ groups = <<>>
  /\ rpc = "setup"
  /\ handlers = {}
  /\ cwd = 0
  /\ exceptions = <<>>
  /\ faults = 0
  /\ lastCall = NoFlagsCall
  /\ sleep = "idle"
  /\ mergeLog = <<>>

\* A client constructs an object of the same class from one or two initial
\* items; when the constructor raises, the client keeps the object it had.
FlagsConstruct(items) ==
  /\ LET res == construct_flags(flags.cls, <<>>, items)
     IN /\ flags' = IF res.ok THEN [flags EXCEPT !.data = res.data] ELSE flags
        /\ lastCall' = [NoFlagsCall EXCEPT !.op = "construct", !.ok = res.ok]
  /\ UNCHANGED <<cfg, probes, attached, runs, groups, rpc, isRunning, handlers, cwd,
                 exceptions, faults, sleep, mergeLog, env, binaries, storyFilter>>

\* A client calls flags.set(name, value, override), or flags[name] = value.
FlagsSet(name, value, override) ==
  /\ LET res == set_flag(flags.cls, flags.data, name, value, override)
     IN /\ Len(res.data) <= FlagsMaxLen
        /\ flags' = [flags EXCEPT !.data = res.data]
        /\ lastCall' = [op |-> "set", name |-> name, value |-> value,
                        override |-> override, ok |-> res.ok]
  /\ UNCHANGED <<cfg, probes, attached, runs, groups, rpc, isRunning, handlers, cwd,
                 exceptions, faults, sleep, mergeLog, env, binaries, storyFilter>>

NextFlags ==
  \/ \E a, b \in FlagItems : FlagsConstruct(<<a>>) \/ FlagsConstruct(<<a, b>>)
  \/ \E name \in FlagNames, value \in FlagValues, override \in BOOLEAN :
       FlagsSet(name, value, override)

SpecFlags == InitFlags /\ [][NextFlags]_vars

\* C25: for every Flags class, setting a flag to the value it has is a no-op;
\* setting it to another value without override fails and leaves the object
\* unchanged; with override the stored value is replaced by the new one.
C25_FlagsSetOnce ==
  [][lastCall'.op = "set" =>
       LET c == lastCall'
       IN HasFlag(flags.data, c.name) =>
            /\ GetFlag(flags.data, c.name) = c.value => (c.ok /\ flags' = flags)
            /\ (GetFlag(flags.data, c.name) # c.value /\ ~c.override) =>
                 (~c.ok /\ flags' = flags)
            /\ (GetFlag(flags.data, c.name) # c.value /\ c.override) =>
                 /\ c.ok
                 /\ HasFlag(flags'.data, c.name)
                 /\ GetFlag(flags'.data, c.name) = c.value]_vars

\* C25 witness: a stored value was replaced by a set call with override.
C25_Witness ==
  /\ lastCall.op = "set" /\ lastCall.ok /\ lastCall.override
  /\ lastCall.value = "v1"
  /\ Len(flags.data) = 2
  /\ flags.data[1] = <<lastCall.name, "v1">>

NoOppositePair(data) ==
  \A k, m \in 1..Len(data) : data[m][1] \notin OppositeNames(data[k][1])

\* C26: a JSFlags object never holds a flag together with its negation; a set
\* call for the opposite of a stored flag fails without override and leaves the
\* object unchanged, and with override it removes the stored opposite and
\* stores the new flag.
C26_JSFlagsNoOpposites ==
  /\ [](flags.cls = "JSFlags" => NoOppositePair(flags.data))
  /\ [][(flags.cls = "JSFlags" /\ lastCall'.op = "set"
         /\ \E n \in OppositeNames(lastCall'.name) : HasFlag(flags.data, n)) =>
          /\ ~lastCall'.override => (~lastCall'.ok /\ flags' = flags)
          /\ lastCall'.override =>
               /\ lastCall'.ok
               /\ HasFlag(flags'.data, lastCall'.name)
               /\ GetFlag(flags'.data, lastCall'.name) = lastCall'.value
               /\ \A n \in OppositeNames(lastCall'.name) : ~HasFlag(flags'.data, n)]_vars

\* C26 witness: --no-foo replaced the stored --foo by a set call with override.
C26_Witness ==
  /\ flags.cls = "JSFlags"
  /\ lastCall.op = "set" /\ lastCall.override /\ lastCall.name = "--no-foo"
  /\ HasFlag(flags.data, "--no-foo") /\ HasFlag(flags.data, "--no-bar")
  /\ ~HasFlag(flags.data, "--foo")

\* ------------------------------------------------- HostEnvironmentConfig
EnvMaxLevel == 1

\* An unset numeric setting.
NoneNum == -1

\* Settings with a boolean value: unset, true or false.
BoolSettings == {"None", "True", "False"}

\* Settings with a numeric bound: unset, or one of the levels 0..EnvMaxLevel.
NumSettings == {NoneNum} \cup (0..EnvMaxLevel)

EnvConfigs ==
  [power_use_battery : BoolSettings, browser_is_headless : BoolSettings,
   cpu_min_relative_speed : NumSettings, cpu_max_usage_percent : NumSettings]

DefaultEnvConfig ==
  [power_use_battery |-> "None", browser_is_headless |-> "None",
   cpu_min_relative_speed |-> NoneNum, cpu_max_usage_percent |-> NoneNum]

\* Merge of a boolean setting: an unset side takes the other value, two
\* different values are a conflict.
merge_bool(a, b) ==
  IF a = "None" THEN b
  ELSE IF b = "None" \/ a = b THEN a
  ELSE "ValueError"

\* Merge of a lower bound that keeps the smaller value.
merge_min_bound_weakest(a, b) ==
  IF a = NoneNum THEN b ELSE IF b = NoneNum THEN a ELSE IF a <= b THEN a ELSE b

\* Merge of a lower bound: the larger value is the stricter one.
merge_min_bound(a, b) ==
  IF a = NoneNum THEN b ELSE IF b = NoneNum THEN a ELSE IF a >= b THEN a ELSE b

\* Merge of an upper bound: the smaller value is the stricter one.
merge_max_bound(a, b) ==
  IF a = NoneNum THEN b ELSE IF b = NoneNum THEN a ELSE IF a <= b THEN a ELSE b

\* HostEnvironmentConfig.merge: ValueError on a boolean conflict, otherwise the
\* config of the merged settings.
HostEnvironmentConfig_merge(a, b) ==
  LET battery == merge_bool(a.power_use_battery, b.power_use_battery)
      headless == merge_bool(a.browser_is_headless, b.browser_is_headless)
  IN IF battery = "ValueError" \/ headless = "ValueError"
     THEN [ok |-> FALSE, config |-> a]
     ELSE [ok |-> TRUE,
           config |-> [power_use_battery |-> battery,
                       browser_is_headless |-> headless,
                       cpu_min_relative_speed |->
                         merge_min_bound(a.cpu_min_relative_speed, b.cpu_min_relative_speed),
                       cpu_max_usage_percent |->
                         merge_max_bound(a.cpu_max_usage_percent, b.cpu_max_usage_percent)]]

ValidationModes == {"THROW", "PROMPT", "WARN", "SKIP"}

\* The engine is idle while a client works on a HostEnvironment.
EngineIdle ==
  /\ cfg = [browsers |-> 1, stories |-> 1, repetitions |-> 1, thread_mode |-> "none",
            throw |-> FALSE, is_dry_run |-> FALSE, remote_from |-> 2]
  /\ probes = DefaultProbes
  /\ attached = {}
  /\ isRunning = <<FALSE>>
  /\ runs = <<>>
  /\ groups = <<>>
  /\ rpc = "setup"
  /\ handlers = {}
  /\ cwd = 0
  /\ exceptions = <<>>
  /\ faults = 0
  /\ sleep = "idle"
  /\ mergeLog = <<>>
  /\ flags = NoFlags
  /\ binaries = <<>>
  /\ storyFilter = NoStoryFilter

NoEnvCall == [op |-> "none", arg |-> <<>>, raised |-> FALSE, message |-> "none",
              prompts |-> 0, warnings |-> 0]

\* A client has constructed a HostEnvironmentConfig.
InitEnvConfig ==
  /\ EngineIdle
  /\ \E c \in EnvConfigs : env = [config |-> c, mode |-> "THROW"]
  /\ lastCall = NoEnvCall

\* A client calls config.merge(other) and keeps the result.
EnvMerge(other) ==
  /\ LET res == HostEnvironmentConfig_merge(env.config, other)
     IN /\ env' = [env EXCEPT !.config = res.config]
        /\ lastCall' = [NoEnvCall EXCEPT !.op = "merge", !.arg = other, !.raised = ~res.ok]
  /\ UNCHANGED <<cfg, probes, attached, runs, groups, rpc, isRunning, handlers, cwd,
                 exceptions, faults, sleep, mergeLog, flags, binaries, storyFilter>>

NextEnvConfig == \E other \in EnvConfigs : EnvMerge(other)

SpecEnvConfig == InitEnvConfig /\ [][NextEnvConfig]_vars

\* C27: HostEnvironmentConfig.merge is commutative and the strictest setting
\* wins: an unset field takes the other config's value, merging a config with
\* itself returns the same values, cpu_min_relative_speed becomes the larger
\* and cpu_max_usage_percent the smaller of two values, and two different
\* boolean values of one field raise ValueError.
C27_EnvConfigMerge ==
  [][lastCall'.op = "merge" =>
       LET a == env.config
           b == lastCall'.arg
           r == env'.config
           back == HostEnvironmentConfig_merge(b, a)
           conflict(f) == a[f] # "None" /\ b[f] # "None" /\ a[f] # b[f]
           unsetOf(f) == IF f \in {"power_use_battery", "browser_is_headless"}
                         THEN "None" ELSE NoneNum
       IN /\ lastCall'.raised <=>
               (conflict("power_use_battery") \/ conflict("browser_is_headless"))
          /\ lastCall'.raised <=> ~back.ok
          /\ ~lastCall'.raised =>
               /\ r = back.config
               /\ \A f \in DOMAIN a :
                    /\ a[f] = unsetOf(f) => r[f] = b[f]
                    /\ b[f] = unsetOf(f) => r[f] = a[f]
                    /\ a[f] = b[f] => r[f] = a[f]
               /\ (a.cpu_min_relative_speed # NoneNum /\ b.cpu_min_relative_speed # NoneNum) =>
                    /\ r.cpu_min_relative_speed >= a.cpu_min_relative_speed
                    /\ r.cpu_min_relative_speed >= b.cpu_min_relative_speed
                    /\ r.cpu_min_relative_speed \in
                         {a.cpu_min_relative_speed, b.cpu_min_relative_speed}
               /\ (a.cpu_max_usage_percent # NoneNum /\ b.cpu_max_usage_percent # NoneNum) =>
                    /\ r.cpu_max_usage_percent <= a.cpu_max_usage_percent
                    /\ r.cpu_max_usage_percent <= b.cpu_max_usage_percent
                    /\ r.cpu_max_usage_percent \in
                         {a.cpu_max_usage_percent, b.cpu_max_usage_percent}]_vars

\* C27 witness: a merge took the larger lower bound and the smaller upper bound
\* from the other config.
C27_Witness ==
  /\ lastCall.op = "merge" /\ ~lastCall.raised
  /\ lastCall.arg.cpu_min_relative_speed = 1 /\ env.config.cpu_min_relative_speed = 1
  /\ lastCall.arg.cpu_max_usage_percent = 0 /\ env.config.cpu_max_usage_percent = 0
  /\ lastCall.arg.power_use_battery = "None" /\ env.config.power_use_battery = "True"

\* -------------------------------------------------------- HostEnvironment
EnvMaxBrowsers == 2

\* HostEnvironment.handle_warning that logs in PROMPT mode instead of asking.
handle_warning_never_asks(mode, message, answer_no) ==
  CASE mode = "THROW" -> [raised |-> TRUE, message |-> message, prompts |-> 0, warnings |-> 0]
    [] mode = "PROMPT" -> [raised |-> FALSE, message |-> "none", prompts |-> 0, warnings |-> 1]
    [] mode = "WARN" -> [raised |-> FALSE, message |-> "none", prompts |-> 0, warnings |-> 1]
    [] mode = "SKIP" -> [raised |-> FALSE, message |-> "none", prompts |-> 0, warnings |-> 0]

\* HostEnvironment.handle_warning: THROW raises ValidationError(message), PROMPT
\* asks once and raises on a no, WARN logs one warning, SKIP does nothing.
\*   answer_no: the user answers the prompt with no.
handle_warning(mode, message, answer_no) ==
  CASE mode = "THROW" -> [raised |-> TRUE, message |-> message, prompts |-> 0, warnings |-> 0]
    [] mode = "PROMPT" -> [raised |-> answer_no,
                           message |-> IF answer_no THEN message ELSE "none",
                           prompts |-> 1, warnings |-> 0]
    [] mode = "WARN" -> [raised |-> FALSE, message |-> "none", prompts |-> 0, warnings |-> 1]
    [] mode = "SKIP" -> [raised |-> FALSE, message |-> "none", prompts |-> 0, warnings |-> 0]

\* The battery check: the platform must be on or off battery as requested.
check_power(power_use_battery, is_battery_powered) ==
  IF \/ power_use_battery = "True" /\ ~is_battery_powered
     \/ power_use_battery = "False" /\ is_battery_powered
  THEN <<"battery">> ELSE <<>>

\* The headless check that tolerates a missing display.
check_headless_ignoring_display(requested, has_display, headless) ==
  IF requested = "None" THEN <<>>
  ELSE LET wrong == SelectSeq(Indices(headless),
                              LAMBDA b : headless[b] # (requested = "True"))
       IN [k \in 1..Len(wrong) |-> "is_headless"]

\* The headless check: nothing when the setting is ignored; otherwise a warning
\* when a UI is requested without a display, and one for every browser whose
\* is_headless differs from the request.
check_headless(requested, has_display, headless) ==
  IF requested = "None" THEN <<>>
  ELSE LET wrong == SelectSeq(Indices(headless),
                              LAMBDA b : headless[b] # (requested = "True"))
       IN (IF requested = "False" /\ ~has_display THEN <<"display">> ELSE <<>>)
          \o [k \in 1..Len(wrong) |-> "is_headless"]

\* The warnings are routed through handle_warning one after the other; the
\* first one that raises ends the validation.
\*   no: the positions of the prompts the user answers with no.
RECURSIVE route_warnings(_, _, _, _, _)
route_warnings(mode, warnings, k, no, acc) ==
  IF k > Len(warnings) THEN acc
  ELSE LET res == handle_warning(mode, warnings[k], k \in no)
           sum == [raised |-> res.raised, message |-> res.message,
                   prompts |-> acc.prompts + res.prompts,
                   warnings |-> acc.warnings + res.warnings]
       IN IF res.raised THEN sum ELSE route_warnings(mode, warnings, k + 1, no, sum)

\* A client has constructed a HostEnvironment with a config of boolean settings
\* and a validation mode.
InitEnv ==
  /\ EngineIdle
  /\ \E c \in EnvConfigs, m \in ValidationModes :
       /\ c.cpu_min_relative_speed = NoneNum /\ c.cpu_max_usage_percent = NoneNum
       /\ env = [config |-> c, mode |-> m]
  /\ lastCall = NoEnvCall

\* A client calls env.handle_warning(message).
HandleWarning(answer_no) ==
  /\ LET res == handle_warning(env.mode, "custom env check warning", answer_no)
     IN lastCall' = [op |-> "handle_warning", arg |-> <<answer_no>>,
                     raised |-> res.raised, message |-> res.message,
                     prompts |-> res.prompts, warnings |-> res.warnings]
  /\ UNCHANGED <<cfg, probes, attached, runs, groups, rpc, isRunning, handlers, cwd,
                 exceptions, faults, sleep, mergeLog, flags, env, binaries, storyFilter>>

\* A client calls env.validate() on a platform that is battery powered or not
\* and has a display or not, for a Runner with the given browsers.
\*   headless[b]: browser b is headless;  no: the prompts answered with no.
Validate(is_battery_powered, has_display, headless, no) ==
  /\ LET warnings == check_power(env.config.power_use_battery, is_battery_powered)
                     \o check_headless(env.config.browser_is_headless, has_display, headless)
         res == route_warnings(env.mode, warnings, 1, no,
                               [raised |-> FALSE, message |-> "none",
                                prompts |-> 0, warnings |-> 0])
     IN /\ env.mode # "PROMPT" => no = {}
        /\ \A k \in no : k <= Len(warnings)
        /\ lastCall' = [op |-> "validate",
                        arg |-> <<is_battery_powered, has_display, headless>>,
                        raised |-> res.raised, message |-> res.message,
                        prompts |-> res.prompts, warnings |-> res.warnings]
  /\ UNCHANGED <<cfg, probes, attached, runs, groups, rpc, isRunning, handlers, cwd,
                 exceptions, faults, sleep, mergeLog, flags, env, binaries, storyFilter>>

NextEnv ==
  \/ \E answer_no \in BOOLEAN : HandleWarning(answer_no)
  \/ \E battery \in BOOLEAN, display \in BOOLEAN, n \in 0..EnvMaxBrowsers :
       \E headless \in [1..n -> BOOLEAN], no \in SUBSET (1..(n + 2)) :
         Validate(battery, display, headless, no)

SpecEnv == InitEnv /\ [][NextEnv]_vars

\* C28: handle_warning routes a warning by the validation mode: THROW always
\* raises ValidationError with the message; PROMPT asks the user exactly once
\* and raises iff the answer is no; WARN logs exactly one warning and does not
\* raise; SKIP neither logs nor raises.
C28_HandleWarningByMode ==
  [][lastCall'.op = "handle_warning" =>
       LET c == lastCall'
       IN /\ env.mode = "THROW" =>
               c.raised /\ c.message = "custom env check warning"
               /\ c.prompts = 0 /\ c.warnings = 0
          /\ env.mode = "PROMPT" =>
               c.prompts = 1 /\ (c.raised <=> c.arg[1]) /\ c.warnings = 0
          /\ env.mode = "WARN" => c.warnings = 1 /\ ~c.raised /\ c.prompts = 0
          /\ env.mode = "SKIP" => c.warnings = 0 /\ ~c.raised /\ c.prompts = 0]_vars

\* C28 witness: in PROMPT mode the user answered no and the call raised.
C28_Witness ==
  /\ env.mode = "PROMPT"
  /\ lastCall.op = "handle_warning" /\ lastCall.arg = <<TRUE>>
  /\ lastCall.raised /\ lastCall.prompts = 1

\* C29: in THROW mode (the battery setting unset), validate with
\* browser_is_headless=true raises iff some browser is not headless, with or
\* without a display; with browser_is_headless=false it raises iff some
\* browser is headless or the platform has no display; with the setting
\* ignored it never raises.
C29_HeadlessValidation ==
  [][(lastCall'.op = "validate" /\ env.mode = "THROW"
      /\ env.config.power_use_battery = "None") =>
       LET has_display == lastCall'.arg[2]
           headless == lastCall'.arg[3]
           requested == env.config.browser_is_headless
       IN /\ requested = "True" =>
               (lastCall'.raised <=> \E b \in 1..Len(headless) : ~headless[b])
          /\ requested = "False" =>
               (lastCall'.raised <=>
                  (~has_display \/ \E b \in 1..Len(headless) : headless[b]))
          /\ requested = "None" => ~lastCall'.raised]_vars

\* C29 witness: headless browsers were requested, the platform has no display,
\* one of two browsers is not headless, and validate raised.
C29_Witness ==
  /\ env.mode = "THROW" /\ env.config.power_use_battery = "None"
  /\ env.config.browser_is_headless = "True"
  /\ lastCall.op = "validate" /\ lastCall.raised
  /\ ~lastCall.arg[2]
  /\ lastCall.arg[3] = <<TRUE, FALSE>>

\* C30: if browser.setup raises during Run.setup, browser.force_quit() is
\* called exactly once, right after the failed browser.setup and before the
\* exception leaves Run.setup: the run's log ends with browser.setup followed
\* by the one browser.force_quit, and the exception has propagated.
C30_ForceQuitOnceOnSetupError ==
  \A i \in 1..Len(runs) :
    "bsetup" \in runs[i].raised =>
      LET log == runs[i].log
          quits == {k \in 1..Len(log) : log[k] = BrowserEvent("browser.force_quit")}
      IN /\ Cardinality(quits) = 1
         /\ \A k \in quits : k > 1 /\ log[k - 1] = BrowserEvent("browser.setup")
         /\ runs[i].escaped

\* C30 witness: browser.setup raised in a run whose probes were set up, and the
\* browser was force-quit.
C30_Witness ==
  \E i \in 1..Len(runs) :
    /\ "bsetup" \in runs[i].raised
    /\ runs[i].escaped
    /\ \E k \in 1..Len(runs[i].log) : runs[i].log[k] = BrowserEvent("browser.force_quit")

\* C31: if a scope's tear_down raises (throw=false), the error is captured in
\* the Run's annotator, every scope is still torn down, in reverse attach
\* order, the browser tmp dir is removed and Run.run does not throw.
C31_TearDownErrorCaptured ==
  ~cfg.throw =>
    \A i \in 1..Len(runs) :
      (runs[i].exited /\ "teardown" \in runs[i].raised) =>
        /\ \E k \in 1..Len(runs[i].errors) : runs[i].errors[k].op = "teardown"
        /\ OpOrder(i, "tear_down") = Reverse(probes)
        /\ runs[i].tmp_dir # "created"
        /\ ~runs[i].escaped

\* C31 witness: with throw=false the tear_down of a scope raised in a Run that
\* had created a browser tmp dir, and the dir is gone.
C31_Witness ==
  /\ ~cfg.throw
  /\ \E i \in 1..Len(runs) :
       /\ runs[i].exited /\ "teardown" \in runs[i].raised
       /\ runs[i].tmp_dir = "removed"

\* ---------------------------------------------------------- Run.tear_down
\* Run.tear_down(probe_scopes, is_shutdown) on Run r, called with the scopes
\* that Run.setup returned.
\*   running: browser.is_running;  F: the scopes whose tear_down raises;
\*   qf1: browser.quit raises inside the try of the is_shutdown branch;
\*   qf2: browser.quit raises under capture("Quit browser").
Run_tear_down(r, running, is_shutdown, qf1, qf2, F) ==
  LET adv == advance_state(r.state, STATE_RUN, STATE_DONE)
      r0 == [r EXCEPT !.state = adv.state]
      quits == quits_browser(running)
      \* if is_shutdown: try: quit  except Exception: logging.warning; return
      first == quits /\ is_shutdown
      returned == first /\ qf1
      \* with self._exceptions.capture("Quit browser"): quit
      second == quits /\ ~returned
      quitAbort == second /\ qf2 /\ Propagates(quit_scope, cfg.throw)
      tdThrows == Propagates(tear_down_scope, cfg.throw)
      full == tear_down_order(Indices(probes))
      cut == FirstIn(full, F)
      order == IF returned \/ quitAbort THEN <<>>
               ELSE IF tdThrows /\ cut > 0 THEN SubSeq(full, 1, cut)
               ELSE full
      scopeAbort == tdThrows /\ \E k \in 1..Len(order) : order[k] \in F
      quitErr == IF second /\ qf2 THEN <<Error("Quit browser", "browser")>> ELSE <<>>
      pos == FirstIn(order, {1})
      written == pos > 0 /\ 1 \notin F
      before == Len(r0.errors) + Len(quitErr)
                + Len(Pick(SubSeq(order, 1, IF pos > 0 THEN pos - 1 ELSE 0), F))
      r1 == [r0 EXCEPT
               !.log = @ \o (IF first THEN <<BrowserEvent("browser.quit")>> ELSE <<>>)
                         \o (IF second THEN <<BrowserEvent("browser.quit")>> ELSE <<>>)
                         \o Events("tear_down", probes, order),
               !.errors = @ \o quitErr \o Events("teardown", probes, Pick(order, F)),
               !.results = TornDown(@, order, F),
               !.summary = IF written THEN before ELSE @,
               !.tmp_dir = IF returned \/ quitAbort \/ scopeAbort THEN @
                           ELSE IF @ = "created" THEN "removed" ELSE @,
               !.quit_skipped = ~quits,
               !.raised = @ \cup (IF (first /\ qf1) \/ (second /\ qf2) THEN {"quit"} ELSE {})
                            \cup (IF \E k \in 1..Len(order) : order[k] \in F
                                  THEN {"teardown"} ELSE {})]
  IN IF ~adv.ok
     THEN [run |-> r0, raised |-> TRUE, order |-> <<>>,
           quit_succeeded |-> FALSE]
     ELSE [run |-> r1, raised |-> quitAbort \/ scopeAbort, order |-> order,
           quit_succeeded |-> (first /\ ~qf1) \/ (second /\ ~qf2)]

NoTearDownCall ==
  [op |-> "none", is_shutdown |-> FALSE, running |-> FALSE, quit_failed |-> FALSE,
   raised |-> FALSE]

\* Run._run of the one Run of a Runner has ended without a failure: the Run is
\* in STATE_RUN, its scopes were set up, started and stopped, the thread stands
\* before Run.tear_down, and the browser is still running or has gone away.
InitTearDown ==
  /\ \E th \in BOOLEAN, rf \in 1..2, running \in BOOLEAN :
       /\ cfg = [browsers |-> 1, stories |-> 1, repetitions |-> 1,
                 thread_mode |-> "none", throw |-> th, is_dry_run |-> FALSE,
                 remote_from |-> rf]
       /\ isRunning = <<running>>
  /\ probes = DefaultProbes \o SubSeq(UserProbeNames, 1, MaxUserProbes)
  /\ attached = {<<probes[j], 1>> : j \in 1..Len(probes)}
  /\ runs = <<[NewRun(1, 1, 0, 0) EXCEPT
                 !.state = STATE_RUN,
                 !.log = Events("setup", probes, Indices(probes))
                         \o <<BrowserEvent("browser.setup")>>
                         \o Events("start", probes, Indices(probes))
                         \o <<[op |-> "story.run", probe |-> "story"]>>
                         \o Events("stop", probes, Reverse(Indices(probes))),
                 !.results = Seeded(Len(probes)),
                 !.tmp_dir = IF is_remote(1)
                                /\ \E j \in 1..Len(probes) :
                                     RESULT_LOCATION(probes[j]) = "browser"
                             THEN "created" ELSE "none",
                 !.out_dir = TRUE]>>
  /\ groups = <<[runs |-> <<1>>, idx |-> 1, pc |-> "teardown", joined |-> FALSE]>>
  /\ rpc = "join"
  /\ handlers = {1}
  /\ cwd = 1
  /\ exceptions = <<>>
  /\ faults = 0
  /\ lastCall = NoTearDownCall
  /\ sleep = "held"
  /\ mergeLog = <<>>
  /\ flags = NoFlags
  /\ env = NoEnv
  /\ binaries = Indices(isRunning)
  /\ storyFilter = NoStoryFilter

\* Run.tear_down(probe_scopes, is_shutdown) is called on Run i.
\*   still: the browser survived a quit that raised.
RunTearDown(i, is_shutdown) ==
  /\ i \in 1..Len(runs)
  /\ \E qf1 \in BOOLEAN, qf2 \in BOOLEAN, still \in BOOLEAN, F \in SUBSET (1..Len(probes)) :
       LET b == runs[i].browser
           res == Run_tear_down(runs[i], isRunning[b], is_shutdown, qf1, qf2, F)
           quits == quits_browser(isRunning[b]) /\ runs[i].state = STATE_RUN
       IN /\ qf1 => (quits /\ is_shutdown)
          /\ qf2 => (quits /\ ~qf1)
          /\ still => (quits /\ ~res.quit_succeeded)
          /\ ~quits => still = isRunning[b]
          /\ F \subseteq Range(res.order)
          /\ Propagates(tear_down_scope, cfg.throw) => Cardinality(F) <= 1
          /\ runs' = [runs EXCEPT ![i] = res.run]
          /\ isRunning' = [isRunning EXCEPT ![b] = IF quits THEN still ELSE @]
          /\ handlers' = IF \E k \in 1..Len(res.order) :
                              res.order[k] = LogProbeIndex /\ res.order[k] \notin F
                         THEN handlers \ {i} ELSE handlers
          /\ lastCall' = [op |-> "tear_down", is_shutdown |-> is_shutdown,
                          running |-> quits, quit_failed |-> qf1 \/ qf2,
                          raised |-> res.raised]
  /\ UNCHANGED <<cfg, probes, attached, groups, rpc, cwd, exceptions, faults,
                 sleep, mergeLog, flags, env, binaries, storyFilter>>

NextTearDown == \E i \in 1..Len(runs), is_shutdown \in BOOLEAN : RunTearDown(i, is_shutdown)

SpecTearDown == InitTearDown /\ [][NextTearDown]_vars

\* The number of browser.quit calls recorded for run i.
QuitCount(i) ==
  Cardinality({k \in 1..Len(runs[i].log) : runs[i].log[k] = BrowserEvent("browser.quit")})

\* C32: when Run.tear_down is called with is_shutdown=true and browser.quit
\* raises, the error is neither propagated nor recorded in the annotator, and
\* teardown goes on: every scope is torn down in reverse setup order (a
\* tear_down that raises stops the others only when the annotator throws) and
\* the browser tmp dir is removed.
C32_ShutdownSwallowsQuitError ==
  [][\A i \in 1..Len(runs) :
       (/\ runs[i].state = STATE_RUN /\ runs'[i].state = STATE_DONE
        /\ lastCall'.op = "tear_down" /\ lastCall'.is_shutdown
        /\ lastCall'.quit_failed) =>
         /\ \A k \in 1..Len(runs'[i].errors) : runs'[i].errors[k].op # "Quit browser"
         /\ "teardown" \notin runs'[i].raised =>
              /\ ~lastCall'.raised
              /\ OpOrder(i, "tear_down")' = Reverse(probes)
              /\ runs'[i].tmp_dir # "created"]_vars

\* C33: Run.tear_down invokes browser.quit exactly once when the browser is
\* still running and not at all when it is no longer running, with
\* is_shutdown=false and with is_shutdown=true.
C33_QuitExactlyOnce ==
  [][\A i \in 1..Len(runs) :
       (/\ runs[i].state = STATE_RUN /\ runs'[i].state = STATE_DONE
        /\ lastCall'.op = "tear_down") =>
         QuitCount(i)' - QuitCount(i) =
           IF quits_browser(isRunning[runs[i].browser]) THEN 1 ELSE 0]_vars

\* The tear_down of probe p's scope was invoked in run i and raised.
TearDownFailed(i, p) ==
  \E k \in 1..Len(runs[i].errors) : runs[i].errors[k] = [op |-> "teardown", probe |-> p]

\* C34: after a non-dry Run has finished teardown, its ProbeResultDict has
\* exactly one entry for every probe with PRODUCES_DATA; the entry is the
\* empty result seeded by Run.setup unless the probe's tear_down was invoked and
\* returned, so a probe whose tear_down failed is still there as an empty
\* result.
C34_ResultsSeededForProducers ==
  ~cfg.is_dry_run =>
    \A i \in 1..Len(runs) :
      runs[i].state = STATE_DONE =>
        \A p \in ProbeSet :
          PRODUCES_DATA(p) =>
            LET res == runs[i].results
                at == {k \in 1..Len(res) : res[k][1] = p}
            IN /\ Cardinality(at) = 1
               /\ \A k \in at :
                    /\ res[k][2] \in {"empty", "data"}
                    /\ res[k][2] = "data" <=>
                         (/\ p \in Range(OpOrder(i, "tear_down"))
                          /\ ~TearDownFailed(i, p))

\* C34 witness: a Run is done, the tear_down of one data-producing probe
\* raised and left the seeded empty result, the tear_down of another returned
\* and stored its result.
C34_Witness ==
  \E i \in 1..Len(runs) :
    /\ runs[i].state = STATE_DONE
    /\ \E p \in ProbeSet, q \in ProbeSet :
         /\ PRODUCES_DATA(p) /\ TearDownFailed(i, p)
         /\ \E k \in 1..Len(runs[i].results) : runs[i].results[k] = <<p, "empty">>
         /\ \E k \in 1..Len(runs[i].results) : runs[i].results[k] = <<q, "data">>

IsPrefix(s, t) == Len(s) <= Len(t) /\ s = SubSeq(t, 1, Len(s))

\* C35: in every Run the setup hooks run in probe attach order and the
\* tear_down hooks in reverse attach order, so the results-summary scope
\* (attached first) is torn down last: when it has written results.json,
\* every other scope's tear_down has been invoked before it, each of them has
\* left its result or its captured error on the Run, and the errors written
\* are all the errors of the Run.
C35_SummaryScopeTornDownLast ==
  \A i \in 1..Len(runs) :
    /\ IsPrefix(OpOrder(i, "setup"), probes)
    /\ IsPrefix(OpOrder(i, "tear_down"), Reverse(probes))
    /\ runs[i].summary >= 0 =>
         /\ OpOrder(i, "tear_down") = Reverse(probes)
         /\ runs[i].log[Len(runs[i].log)] = [op |-> "tear_down", probe |-> "results"]
         /\ runs[i].summary = Len(runs[i].errors)
         /\ \A p \in ProbeSet \ {"results"} :
              \/ TearDownFailed(i, p)
              \/ \E k \in 1..Len(runs[i].results) : runs[i].results[k] = <<p, "data">>

\* C35 witness: results.json of a Run was written after the tear_down of
\* another scope had raised and been captured.
C35_Witness ==
  \E i \in 1..Len(runs) :
    /\ runs[i].summary >= 1
    /\ \E p \in ProbeSet \ {"results"} : TearDownFailed(i, p)

\* C36: during Runner setup with throw=false, browser.setup_binary is called
\* for every browser, also after it raised for an earlier one; if one of the
\* calls failed, Runner.run raises with no Run built and no Run executed.
C36_SetupBinaryForEveryBrowser ==
  /\ (~cfg.throw /\ rpc # "setup") => binaries = [b \in 1..cfg.browsers |-> b]
  /\ BinaryFailed => (rpc = "raised" /\ runs = <<>> /\ groups = <<>>)

\* C36 witness: with throw=false setup_binary raised for the first of two
\* browsers, was still called for the second, and Runner.run raised.
C36_Witness ==
  /\ ~cfg.throw /\ cfg.browsers = 2
  /\ \E k \in 1..Len(exceptions) :
       exceptions[k].error.op = "Preparing browser" /\ exceptions[k].browser = 1
  /\ binaries = <<1, 2>>
  /\ rpc = "raised"

\* ------------------------------------------- probes skipped for a browser
\* Runner.__init__ followed by attach_probe(probe, matching_browser_only=True)
\* for a user probe that is compatible only with the browsers in S (cli.py
\* attaches the probes of the command line this way): the incompatible
\* browsers were skipped with a warning.
InitCompat ==
  /\ \E nb \in 2..MaxBrowsers, mode \in ThreadModes, th \in BOOLEAN,
        S \in SUBSET (1..MaxBrowsers) :
       /\ S \subseteq 1..nb /\ S # 1..nb
       /\ nb <= MaxRuns
       /\ cfg = [browsers |-> nb, stories |-> 1, repetitions |-> 1,
                 thread_mode |-> mode, throw |-> th, is_dry_run |-> FALSE,
                 remote_from |-> nb + 1]
       /\ attached = {<<DefaultProbes[i], b>> : i \in 1..Len(DefaultProbes), b \in 1..nb}
                     \cup {<<UserProbeNames[1], b>> : b \in S}
                     \cup {<<UserProbeNames[i], b>> : i \in 2..MaxUserProbes, b \in 1..nb}
       /\ isRunning = [b \in 1..nb |-> FALSE]
  /\ probes = DefaultProbes \o SubSeq(UserProbeNames, 1, MaxUserProbes)
  /\ runs = <<>>
  /\ groups = <<>>
  /\ rpc = "setup"
  /\ handlers = {}
  /\ cwd = 0
  /\ exceptions = <<>>
  /\ faults = 0
  /\ lastCall = "none"
  /\ sleep = "idle"
  /\ mergeLog = <<>>
  /\ flags = NoFlags
  /\ env = NoEnv
  /\ binaries = <<>>
  /\ storyFilter = NoStoryFilter

SpecCompat == InitCompat /\ [][Next]_vars

\* C37: during a Run a ProbeScope is created, and its hooks invoked, only for
\* probes attached to that Run's browser: a probe that attach_probe skipped for
\* a browser has no hook invoked in any Run of that browser, and when nothing
\* fails such a Run still executes its story.
C37_ScopesOnlyForAttachedProbes ==
  \A i \in 1..Len(runs) :
    /\ \A k \in 1..Len(runs[i].log) :
         runs[i].log[k].probe \in ProbeSet =>
           <<runs[i].log[k].probe, runs[i].browser>> \in attached
    /\ (runs[i].exited /\ faults = 0) => Invoked(i, "story.run")

\* C38: a call of Runner.attach_probe that fails (duplicate probe, or a browser
\* incompatible with the probe while matching_browser_only is false) leaves
\* the Runner unchanged: Runner.probes is as before and the probe has been
\* attached to no browser.
C38_FailedAttachChangesNothing ==
  [][(lastCall'.op = "attach" /\ ~lastCall'.ok) =>
       (probes' = probes /\ attached' = attached)]_vars

\* C39: while a Run's setup, story and teardown hooks execute, the process
\* working directory is that Run's out_dir, and once no Run.run is executing
\* any more it is the initial directory again; in every thread mode.
C39_WorkingDirectoryIsRunDir ==
  /\ \A i \in 1..Len(runs) : Active(i) => cwd = i
  /\ (\A i \in 1..Len(runs) : ~Active(i)) => cwd = 0

\* ---------------------------------------------- PressBenchmarkStoryFilter
FilterMaxPatterns == 3

\* story_cls.all_story_names(): StoryFilter._known_names, in order.
all_story_names == <<"a1", "a2", "b1">>

\* story_cls.default_story_names().
default_story_names == <<"a1", "b1">>

\* The first character of a story name.
Initial(name) == IF name \in {"a1", "a2"} THEN "a" ELSE "b"

\* A pattern is a string, written here as its sequence of tokens: a leading
\* "-" is a token of its own, <<>> is the empty string.
PatternBodies == {"all", "default", "a1", "a2", "b1", "a.*", ".*", "c.*"}

Patterns ==
  {<<>>, <<"-">>, <<"-", "-", "a1">>}
    \cup {<<t>> : t \in PatternBodies}
    \cup {<<"-", t>> : t \in PatternBodies}

\* re.compile(pattern) for the regular expressions among the patterns.
re_compile(t) ==
  CASE t = ".*" -> [kind |-> "any", arg |-> <<>>]
    [] t = "a.*" -> [kind |-> "prefix", arg |-> <<"a">>]
    [] t = "c.*" -> [kind |-> "prefix", arg |-> <<"c">>]

\* regexp.fullmatch(name).
fullmatch(regexp, name) ==
  CASE regexp.kind = "any" -> TRUE
    [] regexp.kind = "prefix" -> Initial(name) = regexp.arg[1]
    [] regexp.kind = "names" -> name \in Range(regexp.arg)

\* PressBenchmarkStoryFilter._pattern_to_regexp.
pattern_to_regexp(t) ==
  IF t = "all" THEN [kind |-> "any", arg |-> <<>>]
  ELSE IF t = "default"
  THEN IF default_story_names = all_story_names
       THEN [kind |-> "any", arg |-> <<>>]
       ELSE [kind |-> "names", arg |-> default_story_names]
  ELSE IF t \in Range(all_story_names) THEN [kind |-> "names", arg |-> <<t>>]
  ELSE re_compile(t)

\* PressBenchmarkStoryFilter._check_processed_pattern: the pattern is neither
\* empty nor starts with "-".
check_processed_pattern(pattern) == pattern # <<>> /\ Head(pattern) # "-"

\* _regexp_match without the check for a match of all the names.
regexp_match_unchecked(regexp, selected) ==
  LET substories == SelectSeq(all_story_names, LAMBDA name : fullmatch(regexp, name))
  IN [ok |-> substories # <<>>, substories |-> substories]

\* PressBenchmarkStoryFilter._regexp_match: the known names that match, in
\* known order; ValueError for no match, and for a match of all the names
\* while names are selected.
regexp_match(regexp, selected) ==
  LET substories == SelectSeq(all_story_names, LAMBDA name : fullmatch(regexp, name))
  IN IF substories = <<>> THEN [ok |-> FALSE, substories |-> substories]
     ELSE IF Len(substories) = Len(all_story_names) /\ selected # <<>>
     THEN [ok |-> FALSE, substories |-> substories]
     ELSE [ok |-> TRUE, substories |-> substories]

\* dict.update(dict.fromkeys(substories)) on the ordered dict _selected_names:
\* a name that is selected keeps its place, a new one goes to the end.
add_matching(selected, substories) ==
  selected \o SelectSeq(substories, LAMBDA name : name \notin Range(selected))

\* PressBenchmarkStoryFilter._remove_matching: the names are deleted one after
\* the other; the first one that is not selected raises ValueError.
RECURSIVE remove_matching(_, _)
remove_matching(selected, substories) ==
  IF substories = <<>> THEN [ok |-> TRUE, selected |-> selected]
  ELSE IF Head(substories) \notin Range(selected)
  THEN [ok |-> FALSE, selected |-> selected]
  ELSE remove_matching(SelectSeq(selected, LAMBDA name : name # Head(substories)),
                       Tail(substories))

\* PressBenchmarkStoryFilter.process_pattern: a pattern that starts with "-"
\* goes to remove without the "-", any other to add.
process_pattern(selected, pattern) ==
  LET negative == pattern # <<>> /\ Head(pattern) = "-"
      body == IF negative THEN Tail(pattern) ELSE pattern
  IN IF ~check_processed_pattern(body)
     THEN [raised |-> TRUE, selected |-> selected]
     ELSE LET m == regexp_match(pattern_to_regexp(body[1]), selected)
          IN IF ~m.ok THEN [raised |-> TRUE, selected |-> selected]
             ELSE IF negative
             THEN LET res == remove_matching(selected, m.substories)
                  IN [raised |-> ~res.ok, selected |-> res.selected]
             ELSE [raised |-> FALSE, selected |-> add_matching(selected, m.substories)]

NoFilterCall == [op |-> "none", pattern |-> <<>>, raised |-> FALSE]

\* PressBenchmarkStoryFilter.__init__ before process_all: nothing is selected.
InitFilter ==
  /\ EngineIdle
  /\ env = NoEnv
  /\ lastCall = NoFilterCall

\* process_all: the next pattern of the list is processed; a ValueError ends
\* the construction of the filter.
ProcessPattern(pattern) ==
  /\ ~lastCall.raised
  /\ storyFilter.processed < FilterMaxPatterns
  /\ LET res == process_pattern(storyFilter.selected, pattern)
     IN /\ storyFilter' = [selected |-> res.selected,
                           processed |-> storyFilter.processed + 1]
        /\ lastCall' = [op |-> "process_pattern", pattern |-> pattern,
                        raised |-> res.raised]
  /\ UNCHANGED <<cfg, probes, attached, runs, groups, rpc, isRunning, handlers, cwd,
                 exceptions, faults, sleep, mergeLog, flags, env, binaries>>

NextFilter == \E pattern \in Patterns : ProcessPattern(pattern)

SpecFilter == InitFilter /\ [][NextFilter]_vars

\* The known names a well-formed pattern body matches.
Matching(t) == {name \in Range(all_story_names) : fullmatch(pattern_to_regexp(t), name)}

IsDuplicateFree(q) == \A a, b \in 1..Len(q) : q[a] = q[b] => a = b

\* C40: the selection always is a duplicate-free sequence of known names, and
\* every pattern is applied to the selection the patterns before it left: a
\* pattern raises ValueError iff it matches no known name, or it is a removal
\* that matches a name that is not selected, or it matches all the known names
\* while the selection is not empty; otherwise a pattern adds every matching
\* name after the names selected so far and a pattern with "-" removes every
\* matching name, the other names keeping their order.
C40_StoryFilterSelection ==
  /\ [](IsDuplicateFree(storyFilter.selected)
        /\ Range(storyFilter.selected) \subseteq Range(all_story_names))
  /\ [][\A t \in PatternBodies, negative \in BOOLEAN :
          lastCall'.pattern = (IF negative THEN <<"-", t>> ELSE <<t>>) =>
            LET sel == storyFilter.selected
                M == Matching(t)
            IN /\ lastCall'.raised <=>
                    \/ M = {}
                    \/ negative /\ ~(M \subseteq Range(sel))
                    \/ M = Range(all_story_names) /\ sel # <<>>
               /\ (~lastCall'.raised /\ ~negative) =>
                    /\ Range(storyFilter'.selected) = Range(sel) \cup M
                    /\ IsPrefix(sel, storyFilter'.selected)
               /\ (~lastCall'.raised /\ negative) =>
                    storyFilter'.selected = SelectSeq(sel, LAMBDA name : name \notin M)]_vars

\* C40 witness: after an addition and a removal one name is selected, and the
\* third pattern, which matches all the names, has raised ValueError.
C40_Witness ==
  /\ storyFilter.processed = 3
  /\ Len(storyFilter.selected) = 1
  /\ lastCall.pattern = <<"all">>
  /\ lastCall.raised

====
